---- MODULE Spec2Model ----
(***************************************************************************)
(* Road-network transform pipeline of osm2terrn: Road validation, edge     *)
(* merging by highway, linestring densification, procedural-road           *)
(* rendering and the .tobj export; bounding-box normalisation and the      *)
(* loaders that send a bounding box to an external source.                 *)
(*                                                                         *)
(* Numbers.  Lengths and coordinates are fixed-point integers, one unit =  *)
(* one millimetre (0.001 m); a Python float is a record [fin, v]: a finite *)
(* value v, or +inf / -inf / nan.  Floating rounding is modelled by the    *)
(* rounding of integer division and of the integer square root.            *)
(***************************************************************************)
EXTENDS Integers, Sequences, FiniteSets, TLC

VARIABLES
    call,            \* the operation being executed and its arguments
    ret,             \* what it returned or raised (NoRet while running)
    pc,              \* position of the running operation
    merged_dense,    \* build_roads_from_place: the densified merged segments
    idx,             \* build_roads_from_place: loop index (1-based here)
    roads,           \* build_roads_from_place: the Road list being assembled
    valid_segments,  \* build_roads_from_place: the counter of line 165
    log,             \* messages logged so far
    file,            \* content of the output .tobj file
    dist,            \* densify_adaptive_by_curvature: distance walked so far
    out_pts,         \* densify_adaptive_by_curvature: the points sampled so far
    boxes,           \* the BBox objects that exist, in order of creation
    requests,        \* the requests issued to the external sources
    current_map      \* main.py: the map data held by the session

vars == <<call, ret, pc, merged_dense, idx, roads, valid_segments, log, file, dist, out_pts,
          boxes, requests, current_map>>

(***************************************************************************)
(* Bounds of the model.                                                    *)
(***************************************************************************)
MaxPts == 2          \* points of a candidate Road
MaxRoads == 2        \* Roads in a list handed to the serializer
MaxSegs == 3         \* merged segments of one pipeline run
MaxEdges == 3        \* edges handed to merge_by_highway
MaxVerts == 3        \* vertices of a line handed to a resampler
MaxStrides == 12     \* iterations of the adaptive sampling loop followed
MaxBoxes == 2        \* BBox objects alive at once
MaxChoices == 4      \* menu choices taken in one session of main.py

(***************************************************************************)
(* Python values.                                                          *)
(***************************************************************************)
None == "<None>"
NoRet == [kind |-> "running"]
Raise(exc) == [kind |-> "raise", exc |-> exc]
Return(v) == [kind |-> "return", value |-> v]

F(v) == [fin |-> TRUE, v |-> v]
PosInf == [fin |-> FALSE, v |-> 1]
NegInf == [fin |-> FALSE, v |-> -1]
NaN == [fin |-> FALSE, v |-> 0]

\* math.isfinite
isfinite(f) == f.fin
\* f > 0 on floats: nan compares false, +inf is greater than 0
Gt0(f) == IF f.fin THEN f.v > 0 ELSE f.v = 1

Abs(n) == IF n < 0 THEN -n ELSE n
Min(a, b) == IF a <= b THEN a ELSE b
Max(a, b) == IF a >= b THEN a ELSE b

RECURSIVE SqrtIter(_, _, _)
SqrtIter(n, lo, hi) ==
    IF lo >= hi THEN lo
    ELSE LET mid == (lo + hi + 1) \div 2
         IN IF mid * mid <= n THEN SqrtIter(n, mid, hi) ELSE SqrtIter(n, lo, mid - 1)
\* floor of the square root
ISqrt(n) == SqrtIter(n, 0, Min(n, 46340))

\* math.hypot on fixed-point values: 0 exactly when both arguments are 0
hypot(dx, dy) == ISqrt(dx * dx + dy * dy)

RECURSIVE SumSeq(_)
SumSeq(s) == IF s = <<>> THEN 0 ELSE Head(s) + SumSeq(Tail(s))

RECURSIVE Flatten(_)
Flatten(ss) == IF ss = <<>> THEN <<>> ELSE Head(ss) \o Flatten(Tail(ss))

(***************************************************************************)
(* processing/road_model.py: the Road dataclass.                           *)
(***************************************************************************)
RoadFields ==
    {"points_m", "width", "border_width", "border_height", "kind", "name", "is_bridge"}
RoadRequired == {"points_m", "width"}
RoadDefaults ==
    [border_width |-> F(0), border_height |-> F(0), kind |-> "asphalt",
     name |-> None, is_bridge |-> FALSE]

\* length accumulated by __post_init__: hypot over the first two stored
\* coordinates of consecutive points
PostInitLength(points_m) ==
    SumSeq([i \in 1..(Len(points_m) - 1) |->
              hypot(points_m[i + 1][1].v - points_m[i][1].v,
                    points_m[i + 1][2].v - points_m[i][2].v)])

\* A plausible slip: the zero-length check is left out.
Road__post_init__NoLength(self) ==
    IF Len(self.points_m) < 2 THEN Raise("ValueError")
    ELSE IF ~Gt0(self.width) THEN Raise("ValueError")
    ELSE IF \E i \in 1..Len(self.points_m) :
                \E k \in 1..3 : ~isfinite(self.points_m[i][k])
         THEN Raise("ValueError")
    ELSE Return(self)

\* points_m is a list of points and width a float, as the annotations say.
Road__post_init__(self) ==
    IF Len(self.points_m) < 2 THEN Raise("ValueError")
    ELSE IF ~Gt0(self.width) THEN Raise("ValueError")
    ELSE IF \E i \in 1..Len(self.points_m) :
                \E k \in 1..3 : ~isfinite(self.points_m[i][k])
         THEN Raise("ValueError")
    ELSE IF PostInitLength(self.points_m) = 0 THEN Raise("ValueError")
    ELSE Return(self)

\* The dataclass-generated __init__: binds the keyword arguments to the
\* fields (TypeError on an unknown keyword or a missing required one), fills
\* the defaults, then runs __post_init__.
Road__init__(kwargs) ==
    IF ~(DOMAIN kwargs \subseteq RoadFields) \/ ~(RoadRequired \subseteq DOMAIN kwargs)
    THEN Raise("TypeError")
    ELSE Road__post_init__(
            [f \in RoadFields |-> IF f \in DOMAIN kwargs THEN kwargs[f] ELSE RoadDefaults[f]])

(***************************************************************************)
(* Road construction: draft -> valid | rejected.                           *)
(***************************************************************************)
CoordVals == {F(0), F(1000), PosInf}
WidthVals == {F(7000), F(0), F(-1000), NaN, NegInf}
Points3D == {<<x, y, z>> : x \in CoordVals, y \in CoordVals, z \in CoordVals}

RECURSIVE SeqsUpTo(_, _)
SeqsUpTo(S, n) ==
    IF n = 0 THEN {<<>>}
    ELSE LET shorter == SeqsUpTo(S, n - 1)
         IN shorter \cup {Append(s, e) : s \in {t \in shorter : Len(t) = n - 1}, e \in S}

RoadDrafts ==
    {[points_m |-> p, width |-> w, kind |-> "road"] :
        p \in SeqsUpTo(Points3D, MaxPts), w \in WidthVals}

Idle ==
    /\ merged_dense = <<>>
    /\ idx = 0
    /\ roads = <<>>
    /\ valid_segments = 0
    /\ log = <<>>
    /\ file = [exists |-> FALSE, data |-> <<>>]
    /\ dist = 0
    /\ out_pts = <<>>
    /\ boxes = <<>>
    /\ requests = <<>>
    /\ current_map = [data |-> <<>>, elevation_data |-> <<>>]

InitRoad ==
    /\ call \in {[op |-> "Road", kwargs |-> k] : k \in RoadDrafts}
    /\ ret = NoRet
    /\ pc = "draft"
    /\ Idle

ConstructRoad ==
    /\ call.op = "Road"
    /\ pc = "draft"
    /\ ret' = Road__init__(call.kwargs)
    /\ pc' = IF ret'.kind = "return" THEN "valid" ELSE "rejected"
    /\ UNCHANGED <<call, merged_dense, idx, roads, valid_segments, log, file, dist, out_pts, boxes, requests, current_map>>

NextRoad == ConstructRoad

SpecRoad == InitRoad /\ [][NextRoad]_vars

\* The draft under construction, and the four rejection cases of the claim.
Draft == call.kwargs
TooFewPoints == Len(Draft.points_m) < 2
BadWidth == ~Gt0(Draft.width)
NonFinite ==
    \E i \in 1..Len(Draft.points_m) : \E k \in 1..3 : ~isfinite(Draft.points_m[i][k])
AllSamePoint ==
    /\ Len(Draft.points_m) >= 1
    /\ \A i \in 1..Len(Draft.points_m) : Draft.points_m[i] = Draft.points_m[1]

\* C1: constructing a Road with fewer than 2 points, with a width that is
\* not greater than 0, with a non-finite coordinate, or with one point
\* repeated, raises ValueError and no Road results.
C1_RejectedWithValueError ==
    (call.op = "Road" /\ pc # "draft"
        /\ (TooFewPoints \/ BadWidth \/ NonFinite \/ AllSamePoint))
    => (ret = Raise("ValueError") /\ pc = "rejected")

C1_Witness ==
    /\ call.op = "Road" /\ pc = "rejected"
    /\ ~TooFewPoints /\ ~BadWidth /\ ~NonFinite /\ AllSamePoint
    /\ ret = Raise("ValueError")

\* Planar arc length: over x (first) and z-planar (third); the middle
\* coordinate is the elevation.
PlanarLength(points_m) ==
    SumSeq([i \in 1..(Len(points_m) - 1) |->
              hypot(points_m[i + 1][1].v - points_m[i][1].v,
                    points_m[i + 1][3].v - points_m[i][3].v)])

\* C2: a candidate with at least 2 points, width > 0, finite coordinates
\* and non-zero planar (x, z-planar) arc length reaches the valid state.
C2_PlanarLengthAccepted ==
    (call.op = "Road" /\ pc # "draft"
        /\ ~TooFewPoints /\ ~BadWidth /\ ~NonFinite
        /\ PlanarLength(Draft.points_m) # 0)
    => (pc = "valid" /\ ret.kind = "return")

(***************************************************************************)
(* utils/geometry_utils.py: resampling of a shapely LineString.  A line is *)
(* a sequence of 2-D points <<x, y>> in fixed-point millimetres.           *)
(***************************************************************************)
\* floor(a / b) for b # 0, and round-to-nearest a / b for b > 0
FloorDiv(a, b) == IF b > 0 THEN a \div b ELSE (-a) \div (-b)
CeilDiv(a, b) == -FloorDiv(-a, b)
RoundDiv(a, b) == (2 * a + b) \div (2 * b)

SegLen(p, q) == hypot(q[1] - p[1], q[2] - p[2])

\* LineString.length
LineLength(ls) == SumSeq([i \in 1..(Len(ls) - 1) |-> SegLen(ls[i], ls[i + 1])])

\* LineString.interpolate(d): walk the segments, then interpolate linearly
\* inside the segment that holds the distance; past the end, the last
\* vertex; a negative distance is measured backwards from the end.
RECURSIVE InterpolateFrom(_, _, _)
InterpolateFrom(ls, i, d) ==
    IF i >= Len(ls) THEN ls[Len(ls)]
    ELSE LET p == ls[i]
             q == ls[i + 1]
             sl == SegLen(p, q)
         IN IF sl > 0 /\ d <= sl
            THEN <<p[1] + RoundDiv((q[1] - p[1]) * d, sl),
                   p[2] + RoundDiv((q[2] - p[2]) * d, sl)>>
            ELSE InterpolateFrom(ls, i + 1, d - sl)
interpolate(ls, d) ==
    IF d = 0 \/ d + LineLength(ls) <= 0 THEN ls[1]
    ELSE IF d < 0 THEN InterpolateFrom(ls, 1, d + LineLength(ls))
    ELSE InterpolateFrom(ls, 1, d)

\* A plausible slip: samples at multiples of step and forgets the end point.
densify_linestringNoEnd(ls, step) ==
    IF step <= 0 THEN Raise("ValueError")
    ELSE IF LineLength(ls) <= step THEN Return(ls)
    ELSE LET n == FloorDiv(LineLength(ls), step)
         IN Return([i \in 1..(n + 1) |-> interpolate(ls, (i - 1) * step)])

\* ls is a LineString (any other input raises ValueError before the step is
\* looked at).
densify_linestring(ls, step) ==
    IF step <= 0 THEN Raise("ValueError")
    ELSE IF LineLength(ls) <= step THEN Return(ls)
    ELSE LET length == LineLength(ls)
             n == CeilDiv(length, step)
             \* np.linspace(0, length, n + 1)
             dists == [i \in 1..(n + 1) |-> RoundDiv((i - 1) * length, n)]
         IN Return([i \in 1..(n + 1) |-> interpolate(ls, dists[i])])

\* The vertices densify_preserve_vertices inserts inside the segment p0-p1.
PreserveInserted(p0, p1, step) ==
    LET seg_len == SegLen(p0, p1)
    IN IF seg_len > step
       THEN LET num_points == FloorDiv(seg_len, step)
                js == {j \in 1..num_points : j * step < seg_len}
            IN [j \in 1..Cardinality(js) |-> interpolate(<<p0, p1>>, j * step)]
       ELSE <<>>

\* A plausible slip: the end vertex of a sub-segment that received inserted
\* points is not appended, except at the end of the line.
densify_preserve_verticesDropsCorner(ls, step) ==
    IF LineLength(ls) <= step THEN Return(ls)
    ELSE IF step = 0 /\ \E i \in 1..(Len(ls) - 1) : SegLen(ls[i], ls[i + 1]) > step
         THEN Raise("ZeroDivisionError")
    ELSE Return(<<ls[1]>> \o
                Flatten([i \in 1..(Len(ls) - 1) |->
                           IF PreserveInserted(ls[i], ls[i + 1], step) # <<>> /\ i + 1 < Len(ls)
                           THEN PreserveInserted(ls[i], ls[i + 1], step)
                           ELSE Append(PreserveInserted(ls[i], ls[i + 1], step), ls[i + 1])]))

densify_preserve_vertices(ls, step) ==
    IF LineLength(ls) <= step THEN Return(ls)
    ELSE IF step = 0 /\ \E i \in 1..(Len(ls) - 1) : SegLen(ls[i], ls[i + 1]) > step
         THEN Raise("ZeroDivisionError")
    ELSE Return(<<ls[1]>> \o
                Flatten([i \in 1..(Len(ls) - 1) |->
                           Append(PreserveInserted(ls[i], ls[i + 1], step), ls[i + 1])]))

(***************************************************************************)
(* densify_adaptive_by_curvature.  The resamplers are scale-free but for   *)
(* the duplicate tolerance of line 98 (1e-9); the lines of SpecResample    *)
(* are in units of a tenth of that tolerance.  Angles are in hundredths of *)
(* a degree.                                                               *)
(***************************************************************************)
DupTol == 10

\* math.degrees(math.atan2(ay, ax)) for ax, ay >= 0, on the directions
\* between the points of the grid
QuadrantAngle(ax, ay) ==
    CASE ay = 0 -> 0
      [] ax = 0 /\ ay # 0 -> 9000
      [] ax = ay /\ ay # 0 -> 4500
      [] ax = 2 * ay /\ ay # 0 -> 2657
      [] ay = 2 * ax /\ ax # 0 -> 6343

\* lines 55-56
heading(a, b) ==
    LET dx == b[1] - a[1]
        dy == b[2] - a[2]
        q == QuadrantAngle(Abs(dx), Abs(dy))
        up == IF dx >= 0 THEN q ELSE 18000 - q
    IN IF dy >= 0 THEN up ELSE -up

\* lines 57-66: one heading change per vertex, 0 at both ends
angle_changes(coords) ==
    [i \in 1..Len(coords) |->
        IF i = 1 \/ i = Len(coords) THEN 0
        ELSE Abs(((heading(coords[i], coords[i + 1]) - heading(coords[i - 1], coords[i])
                     + 18000) % 36000) - 18000)]

\* lines 67-70: norm as a fraction NormNum / NormDen; the moving average
\* over 5 vertices applies from 5 vertices on
NormDen(coords) == IF Len(coords) >= 5 THEN 5 * 18000 ELSE 18000
NormNum(coords) ==
    LET ac == angle_changes(coords)
    IN IF Len(coords) >= 5
       THEN [i \in 1..Len(coords) |->
               SumSeq([k \in 1..5 |->
                         IF i + k - 3 \in 1..Len(coords) THEN ac[i + k - 3] ELSE 0])]
       ELSE ac

\* line 71
step_per_vertex(coords, min_step, max_step) ==
    [i \in 1..Len(coords) |->
        max_step - RoundDiv((max_step - min_step) * NormNum(coords)[i], NormDen(coords))]

\* lines 77-83
cumlen(coords) == [i \in 1..Len(coords) |-> LineLength(SubSeq(coords, 1, i))]

\* lines 84-87 (indices from 1 here)
step_at(coords, min_step, max_step, s) ==
    LET searchsorted == Cardinality({i \in 1..Len(coords) : cumlen(coords)[i] <= s})
        i0 == Max(0, Min(searchsorted - 1, Len(coords) - 1))
    IN step_per_vertex(coords, min_step, max_step)[i0 + 1]

\* lines 95-100: drop a point that is within the tolerance of the last kept
RECURSIVE clean(_)
clean(pts) ==
    IF Len(pts) <= 1 THEN pts
    ELSE LET kept == clean(SubSeq(pts, 1, Len(pts) - 1))
             last == kept[Len(kept)]
             xy == pts[Len(pts)]
         IN IF Abs(xy[1] - last[1]) > DupTol \/ Abs(xy[2] - last[2]) > DupTol
            THEN Append(kept, xy)
            ELSE kept

\* LineString(coords) of a single coordinate fails: ValueError in Shapely 1,
\* GEOSException in Shapely 2
LineStringErrors == {"ValueError", "GEOSException"}

GridPoints == {<<x, y>> : x \in {0, 1000, 2000}, y \in {0, 1000}}
StepVals == {-1000, 0, 700, 1000, 1500, 5000}
Lines == {l \in SeqsUpTo(GridPoints, MaxVerts) : Len(l) >= 2}
ResampleOps == {"densify_linestring", "densify_preserve_vertices"}

\* <<min_step, max_step>>
StepPairs ==
    {<<700, 700>>, <<700, 1500>>, <<1000, 5000>>, <<1995, 1995>>, <<0, 0>>, <<-1000, 1000>>}

InitResample ==
    /\ call \in {[op |-> o, ls |-> l, step |-> s] :
                    o \in ResampleOps, l \in Lines, s \in StepVals}
               \cup {[op |-> "densify_adaptive_by_curvature", ls |-> l,
                      min_step |-> sp[1], max_step |-> sp[2], preserve_ends |-> pe] :
                        l \in Lines, sp \in StepPairs, pe \in BOOLEAN}
    /\ ret = NoRet
    /\ pc = "call"
    /\ Idle

DensifyLinestring ==
    /\ call.op = "densify_linestring"
    /\ pc = "call"
    /\ ret' = densify_linestring(call.ls, call.step)
    /\ pc' = "done"
    /\ UNCHANGED <<call, merged_dense, idx, roads, valid_segments, log, file, dist, out_pts, boxes, requests, current_map>>

DensifyPreserveVertices ==
    /\ call.op = "densify_preserve_vertices"
    /\ pc = "call"
    /\ ret' = densify_preserve_vertices(call.ls, call.step)
    /\ pc' = "done"
    /\ UNCHANGED <<call, merged_dense, idx, roads, valid_segments, log, file, dist, out_pts, boxes, requests, current_map>>

\* lines 47-76: the early returns, or the start of the sampling loop
AdaptiveStart ==
    /\ call.op = "densify_adaptive_by_curvature"
    /\ pc = "call"
    /\ IF LineLength(call.ls) <= call.min_step
       THEN /\ ret' = Return(call.ls)
            /\ pc' = "done"
            /\ UNCHANGED <<dist, out_pts>>
       ELSE IF Len(call.ls) < 3
       THEN /\ ret' = densify_linestring(call.ls, (call.min_step + call.max_step) \div 2)
            /\ pc' = "done"
            /\ UNCHANGED <<dist, out_pts>>
       ELSE /\ out_pts' = IF call.preserve_ends THEN <<call.ls[1]>> ELSE <<>>
            /\ dist' = 0
            /\ pc' = "walk"
            /\ UNCHANGED ret
    /\ UNCHANGED <<call, merged_dense, idx, roads, valid_segments, log, file, boxes, requests, current_map>>

\* lines 88-92: one iteration of the sampling loop
AdaptiveStride ==
    /\ call.op = "densify_adaptive_by_curvature"
    /\ pc = "walk"
    /\ dist < LineLength(call.ls)
    /\ Len(out_pts) < MaxStrides
    /\ LET step_here == Max(call.min_step,
                            Min(call.max_step,
                                step_at(call.ls, call.min_step, call.max_step, dist)))
       IN /\ dist' = Min(LineLength(call.ls), dist + step_here)
          /\ out_pts' = Append(out_pts, interpolate(call.ls, dist'))
    /\ UNCHANGED <<call, ret, pc, merged_dense, idx, roads, valid_segments, log, file, boxes, requests, current_map>>

\* lines 93-101: the last point replaced by the end vertex, duplicates
\* dropped, the LineString built
AdaptiveFinish ==
    /\ call.op = "densify_adaptive_by_curvature"
    /\ pc = "walk"
    /\ dist >= LineLength(call.ls)
    /\ LET ended == IF call.preserve_ends
                    THEN [out_pts EXCEPT ![Len(out_pts)] = call.ls[Len(call.ls)]]
                    ELSE out_pts
           cleaned == clean(ended)
       IN IF Len(cleaned) = 1
          THEN \E e \in LineStringErrors : ret' = Raise(e)
          ELSE ret' = Return(cleaned)
    /\ pc' = "done"
    /\ UNCHANGED <<call, merged_dense, idx, roads, valid_segments, log, file, dist, out_pts, boxes, requests, current_map>>

NextResample ==
    \/ DensifyLinestring
    \/ DensifyPreserveVertices
    \/ AdaptiveStart
    \/ AdaptiveStride
    \/ AdaptiveFinish

SpecResample == InitResample /\ [][NextResample]_vars

\* Floating tolerance of an arc length summed over the points of a line:
\* a few rounding units per point.
LenTol(ls) == 4 * Len(ls)

Cross(a, b, c) == (b[1] - a[1]) * (c[2] - a[2]) - (b[2] - a[2]) * (c[1] - a[1])
Dot(a, b, c, d) == (b[1] - a[1]) * (d[1] - c[1]) + (b[2] - a[2]) * (d[2] - c[2])
\* A straight line: every segment points from the first vertex towards the
\* last, with no corner and no reversal.
Straight(ls) ==
    /\ ls[1] # ls[Len(ls)]
    /\ \A i \in 1..(Len(ls) - 1) :
          /\ Cross(ls[1], ls[Len(ls)], ls[i + 1]) = 0
          /\ Cross(ls[1], ls[Len(ls)], ls[i]) = 0
          /\ Dot(ls[i], ls[i + 1], ls[1], ls[Len(ls)]) >= 0

UniformDone == call.op = "densify_linestring" /\ pc = "done" /\ call.step > 0

\* C9 (as stated): uniform-step resampling preserves the arc length of
\* every line, corners included, for every step > 0.
C9_ArcLengthPreserved ==
    UniformDone =>
        /\ ret.kind = "return"
        /\ Abs(LineLength(ret.value) - LineLength(call.ls)) <= LenTol(ret.value)

\* C9 (amended): for every step > 0 the resampled line is never longer than
\* the input, and its arc length equals the input's when the input is
\* passed through unchanged or is a straight line (no corner to cut).
C9_ArcLengthNotIncreasedAndKeptOnStraight ==
    UniformDone =>
        /\ ret.kind = "return"
        /\ LineLength(ret.value) <= LineLength(call.ls) + LenTol(ret.value)
        /\ (Straight(call.ls) \/ LineLength(call.ls) <= call.step)
              => LineLength(ret.value) >= LineLength(call.ls) - LenTol(ret.value)

C9_Witness ==
    /\ UniformDone
    /\ Straight(call.ls) /\ Len(call.ls) = 3
    /\ LineLength(call.ls) > call.step
    /\ ret.kind = "return" /\ Len(ret.value) > Len(call.ls)
    /\ Abs(LineLength(ret.value) - LineLength(call.ls)) <= LenTol(ret.value)

\* C10: uniform step and vertex-preserving uniform step reject every
\* step <= 0 with the invalid-parameter error (ValueError) and return no
\* geometry.
C10_NonPositiveStepRejected ==
    (call.op \in ResampleOps /\ pc = "done" /\ call.step <= 0)
        => ret = Raise("ValueError")

PreserveDone == call.op = "densify_preserve_vertices" /\ pc = "done" /\ call.step > 0

\* pt lies on the segment p-q, up to the rounding of its two coordinates
OnSegment(pt, p, q) ==
    /\ Abs(Cross(p, q, pt)) <= Abs(q[1] - p[1]) + Abs(q[2] - p[2])
    /\ Min(p[1], q[1]) <= pt[1] /\ pt[1] <= p[1] + q[1] - Min(p[1], q[1])
    /\ Min(p[2], q[2]) <= pt[2] /\ pt[2] <= p[2] + q[2] - Min(p[2], q[2])

\* Positions in out of the vertices of ls: strictly increasing, first on
\* first, last on last, the same vertex at each.
VertexMaps(ls, out) ==
    {m \in [1..Len(ls) -> 1..Len(out)] :
        /\ m[1] = 1
        /\ m[Len(ls)] = Len(out)
        /\ \A i \in 1..(Len(ls) - 1) : m[i] < m[i + 1]
        /\ \A i \in 1..Len(ls) : out[m[i]] = ls[i]}

\* C11: for every line and step > 0, vertex-preserving resampling returns a
\* line of which the input vertices are a subsequence in the same order,
\* every other vertex lies on an input sub-segment longer than step, and
\* consecutive output vertices are at most step apart.
C11_VerticesKeptAndGapsBounded ==
    PreserveDone =>
        /\ ret.kind = "return"
        /\ \E m \in VertexMaps(call.ls, ret.value) :
              \A i \in 1..(Len(call.ls) - 1) :
                 \A k \in (m[i] + 1)..(m[i + 1] - 1) :
                    /\ SegLen(call.ls[i], call.ls[i + 1]) > call.step
                    /\ OnSegment(ret.value[k], call.ls[i], call.ls[i + 1])
        /\ \A k \in 1..(Len(ret.value) - 1) :
              SegLen(ret.value[k], ret.value[k + 1])
                 <= call.step + LenTol(<<ret.value[k], ret.value[k + 1]>>)

\* A line with a corner, one sub-segment longer than step and one not.
C11_Witness ==
    /\ PreserveDone
    /\ Len(call.ls) = 3 /\ ~Straight(call.ls)
    /\ SegLen(call.ls[1], call.ls[2]) > call.step
    /\ SegLen(call.ls[2], call.ls[3]) > 0
    /\ SegLen(call.ls[2], call.ls[3]) <= call.step
    /\ ret.kind = "return" /\ Len(ret.value) > Len(call.ls)
    /\ \E k \in 2..(Len(ret.value) - 1) : ret.value[k] = call.ls[2]

AdaptiveDone ==
    /\ call.op = "densify_adaptive_by_curvature" /\ pc = "done"
    /\ call.preserve_ends
    /\ 0 < call.min_step /\ call.min_step <= call.max_step

\* C12: for every line and every 0 < min_step <= max_step, the line that
\* curvature-adaptive resampling returns starts with the first input vertex
\* and ends with the last input vertex, exactly.
C12_EndpointsExact ==
    (AdaptiveDone /\ ret.kind = "return") =>
        /\ ret.value[1] = call.ls[1]
        /\ ret.value[Len(ret.value)] = call.ls[Len(call.ls)]

\* For C13: the line has positive length and the step parameters are valid.
ValidResample ==
    /\ pc = "done"
    /\ LineLength(call.ls) > 0
    /\ \/ call.op \in ResampleOps /\ call.step > 0
       \/ AdaptiveDone

\* C13: for every line of positive length, closed loops included, and valid
\* step parameters, each of the three resampling policies returns a line of
\* at least two vertices and does not fail.
C13_AtLeastTwoVertices ==
    ValidResample => (ret.kind = "return" /\ Len(ret.value) >= 2)

\* C28: adaptive resampling terminates for every line and every pair
\* (min_step, max_step), zero and negative values included, because the
\* traversed distance strictly increases at every iteration of the
\* sampling loop.
C28_DistanceStrictlyIncreases ==
    [][(call.op = "densify_adaptive_by_curvature" /\ pc = "walk" /\ out_pts' # out_pts)
          => dist' > dist]_vars
\* the same for 0 < min_step <= max_step
C28_DistanceStrictlyIncreasesForPositiveSteps ==
    [][(/\ call.op = "densify_adaptive_by_curvature" /\ pc = "walk" /\ out_pts' # out_pts
        /\ 0 < call.min_step /\ call.min_step <= call.max_step)
          => dist' > dist]_vars

(***************************************************************************)
(* processing/road_merger.py: merge_by_highway.  An edge is a pair         *)
(* [geom, attrs]; attrs maps tag keys to tagged Python values.             *)
(***************************************************************************)
PyStr(x) == [t |-> "str", s |-> x]
PyList(x) == [t |-> "list", l |-> x]
PyBool(x) == [t |-> "bool", b |-> x]
PyNum(x) == [t |-> "num", n |-> x]
PyNone == [t |-> "none"]

\* dict.get(key) and dict.get(key, default)
Get(attrs, k) == IF k \in DOMAIN attrs THEN attrs[k] ELSE PyNone
GetOr(attrs, k, default) == IF k \in DOMAIN attrs THEN attrs[k] ELSE default

\* truth value of a Python object
Truthy(x) ==
    CASE x.t = "str" -> x.s # ""
      [] x.t = "list" -> x.l # <<>>
      [] x.t = "bool" -> x.b
      [] x.t = "num" -> x.n # 0
      [] OTHER -> FALSE

\* str(x), on the values the model uses
str(x) ==
    CASE x.t = "str" -> x.s
      [] x.t = "bool" -> IF x.b THEN "True" ELSE "False"
      [] x.t = "num" -> IF x.n = 1 THEN "1" ELSE IF x.n = 0 THEN "0" ELSE "<num>"
      [] x.t = "list" -> IF x.l = <<"yes">> THEN "['yes']"
                         ELSE IF x.l = <<"Main St", "Side St">> THEN "['Main St', 'Side St']"
                         ELSE "[...]"
      [] OTHER -> "None"

\* str.strip() and str.lower(), on the strings the model uses
strip(x) ==
    CASE x = " " -> ""
      [] x = " Main St " -> "Main St"
      [] OTHER -> x
lower(x) ==
    CASE x = "YES" -> "yes"
      [] x = "West" -> "west"
      [] x = "South" -> "south"
      [] x = "East" -> "east"
      [] x = "North" -> "north"
      [] x = "Yes" -> "yes"
      [] x = "True" -> "true"
      [] x = "False" -> "false"
      [] OTHER -> x

\* line 26: the bucket key of an edge
EdgeKey(attrs) ==
    LET hw == Get(attrs, "highway")
    IN IF hw.t = "str" THEN hw.s
       ELSE IF hw.t = "list" /\ hw.l # <<>> THEN hw.l[1]
       ELSE "unknown"

RECURSIVE Dedup(_)
\* the distinct elements of a sequence, in order of first occurrence
Dedup(q) ==
    IF q = <<>> THEN <<>>
    ELSE LET init == Dedup(SubSeq(q, 1, Len(q) - 1))
             last == q[Len(q)]
         IN IF \E i \in 1..Len(init) : init[i] = last THEN init ELSE Append(init, last)

\* the keys of the defaultdict, in insertion order
BucketKeys(geoms_attrs) == Dedup([i \in 1..Len(geoms_attrs) |-> EdgeKey(geoms_attrs[i].attrs)])

\* A plausible slip: the bucket is not filtered by key.
BucketItemsUnfiltered(geoms_attrs, key) == geoms_attrs

\* buckets[key]: the edges of the bucket, in input order
BucketItems(geoms_attrs, key) ==
    SelectSeq(geoms_attrs, LAMBDA e : EdgeKey(e.attrs) = key)

\* line 32
BucketNames(items) ==
    LET named == SelectSeq(items, LAMBDA e : Truthy(Get(e.attrs, "name")))
    IN [i \in 1..Len(named) |-> strip(str(Get(named[i].attrs, "name")))]

\* the bridge indicator of one edge (line 34)
BridgeIndicator(attrs) ==
    lower(str(GetOr(attrs, "bridge", PyStr("no")))) \in {"yes", "true", "1"}

Count(q, x) == Cardinality({i \in 1..Len(q) : q[i] = x})
\* Counter(names).most_common(1)[0][0]: the first name of maximal count
MostCommon(names) ==
    LET best == CHOOSE i \in 1..Len(names) :
                    /\ \A j \in 1..Len(names) : Count(names, names[j]) <= Count(names, names[i])
                    /\ \A j \in 1..(i - 1) : Count(names, names[j]) < Count(names, names[i])
    IN names[best]

\* shapely.ops.linemerge: lines joined end to end at every node where
\* exactly two line ends meet, until no such node is left.
Reverse(l) == [i \in 1..Len(l) |-> l[Len(l) + 1 - i]]
LineEnds(l) == {l[1], l[Len(l)]}
Degree(lines, P) ==
    SumSeq([i \in 1..Len(lines) |->
              (IF lines[i][1] = P THEN 1 ELSE 0)
              + (IF lines[i][Len(lines[i])] = P THEN 1 ELSE 0)])
JoinAt(a, b, P) ==
    LET a1 == IF a[Len(a)] = P THEN a ELSE Reverse(a)
        b1 == IF b[1] = P THEN b ELSE Reverse(b)
    IN a1 \o Tail(b1)
Fusable(lines) ==
    {pr \in (1..Len(lines)) \X (1..Len(lines)) :
        /\ pr[1] < pr[2]
        /\ \E P \in LineEnds(lines[pr[1]]) \cap LineEnds(lines[pr[2]]) : Degree(lines, P) = 2}
RECURSIVE MergeLines(_)
MergeLines(lines) ==
    IF Fusable(lines) = {} THEN lines
    ELSE LET pr == CHOOSE x \in Fusable(lines) :
                      \A y \in Fusable(lines) :
                          x[1] < y[1] \/ (x[1] = y[1] /\ x[2] <= y[2])
             P == CHOOSE Q \in LineEnds(lines[pr[1]]) \cap LineEnds(lines[pr[2]]) :
                      Degree(lines, Q) = 2
             joined == JoinAt(lines[pr[1]], lines[pr[2]], P)
         IN MergeLines([i \in 1..(Len(lines) - 1) |->
                          IF i = pr[1] THEN joined
                          ELSE IF i < pr[2] THEN lines[i] ELSE lines[i + 1]])
\* a line all of whose vertices coincide; the merger does not add it to its
\* graph
Degenerate(l) == \A i \in 1..Len(l) : l[i] = l[1]
\* the parts of the merged geometry: one part is a LineString, several are
\* the parts of a MultiLineString, none is an empty GeometryCollection
linemerge(lines) == MergeLines(SelectSeq(lines, LAMBDA l : ~Degenerate(l)))

\* lines 29-45: what one bucket appends to `merged`
MergeBucket(key, items) ==
    LET names == BucketNames(items)
        is_bridge == \E i \in 1..Len(items) : BridgeIndicator(items[i].attrs)
        name == IF names # <<>> THEN MostCommon(names) ELSE None
        parts == linemerge([i \in 1..Len(items) |-> items[i].geom])
    IN [i \in 1..Len(parts) |->
          [geom |-> parts[i],
           attrs |-> [highway |-> key, name |-> name, bridge |-> is_bridge]]]

merge_by_highway(geoms_attrs) ==
    LET keys == BucketKeys(geoms_attrs)
    IN Flatten([k \in 1..Len(keys) |->
                  MergeBucket(keys[k], BucketItems(geoms_attrs, keys[k]))])

\* lines 48-49: the warning of a bucket whose merged geometry is neither a
\* LineString nor a MultiLineString (the parts of a MultiLineString are
\* LineStrings, so line 47 is never reached)
MergeWarnings(geoms_attrs) ==
    LET keys == BucketKeys(geoms_attrs)
        items(k) == BucketItems(geoms_attrs, keys[k])
    IN Flatten([k \in 1..Len(keys) |->
                  IF linemerge([i \in 1..Len(items(k)) |-> items(k)[i].geom]) = <<>>
                  THEN <<<<"warning", "Unexpected geometry type", keys[k]>>>>
                  ELSE <<>>])

N0 == <<0, 0>>
N1 == <<10000, 0>>
N2 == <<20000, 0>>
N3 == <<10000, 10000>>
EdgeCatalogue ==
    { [geom |-> <<N0, N1>>, attrs |-> [highway |-> PyStr("primary")]],
      [geom |-> <<N1, N2>>, attrs |-> [highway |-> PyStr("primary"), name |-> PyStr("Main St")]],
      [geom |-> <<N2, N1>>, attrs |-> [highway |-> PyList(<<"primary", "secondary">>),
                                       name |-> PyStr(" Main St "), bridge |-> PyStr("no")]],
      [geom |-> <<N1, N3>>, attrs |-> [highway |-> PyStr("primary"), name |-> PyStr("Side St"),
                                       bridge |-> PyStr("Yes")]],
      [geom |-> <<N1, N2>>, attrs |-> [highway |-> PyStr("residential"), name |-> PyStr("Side St"),
                                       bridge |-> PyBool(TRUE)]],
      [geom |-> <<N0, N1>>, attrs |-> [highway |-> PyStr("residential"), name |-> PyStr(" ")]],
      [geom |-> <<N3, N1>>, attrs |-> [highway |-> PyStr("footway"), name |-> PyStr("Side St"),
                                       bridge |-> PyStr("yes")]],
      [geom |-> <<N0, N3>>, attrs |-> [name |-> PyList(<<"Main St", "Side St">>),
                                       bridge |-> PyList(<<"yes">>)]],
      [geom |-> <<N2, N3>>, attrs |-> [highway |-> PyNum(1), bridge |-> PyNum(1)]],
      [geom |-> <<N3, N3>>, attrs |-> [highway |-> PyStr("primary")]] }

EdgeLists == {l \in SeqsUpTo(EdgeCatalogue, MaxEdges) : Len(l) >= 1}

InitMerge ==
    /\ call \in {[op |-> "merge_by_highway", geoms_attrs |-> g] : g \in EdgeLists}
    /\ ret = NoRet
    /\ pc = "call"
    /\ Idle

MergeByHighway ==
    /\ call.op = "merge_by_highway"
    /\ pc = "call"
    /\ ret' = Return(merge_by_highway(call.geoms_attrs))
    /\ log' = log \o MergeWarnings(call.geoms_attrs)
    /\ pc' = "done"
    /\ UNCHANGED <<call, merged_dense, idx, roads, valid_segments, file, dist, out_pts, boxes, requests, current_map>>

NextMerge == MergeByHighway

SpecMerge == InitMerge /\ [][NextMerge]_vars

MergeDone == call.op = "merge_by_highway" /\ pc = "done"
\* the input edges of category A
EdgesOf(A) == SelectSeq(call.geoms_attrs, LAMBDA e : EdgeKey(e.attrs) = A)
\* the output segments of category A
SegmentsOf(A) == SelectSeq(ret.value, LAMBDA sg : sg.attrs.highway = A)

\* C8: a merged segment of category A takes its name from an edge of
\* category A (or has none), is a bridge only if an edge of category A
\* carries a bridge indicator, and is not influenced by the edges of any
\* other category: merging the edges of A alone gives the same segments.
C8_NoCrossCategoryAttributes ==
    MergeDone =>
        \A k \in 1..Len(ret.value) :
            LET sg == ret.value[k]
                A == sg.attrs.highway
                own == EdgesOf(A)
            IN /\ own # <<>>
               /\ \/ sg.attrs.name = None
                  \/ \E i \in 1..Len(own) :
                        /\ Truthy(Get(own[i].attrs, "name"))
                        /\ strip(str(Get(own[i].attrs, "name"))) = sg.attrs.name
               /\ sg.attrs.bridge => \E i \in 1..Len(own) : BridgeIndicator(own[i].attrs)
               /\ SegmentsOf(A) = merge_by_highway(own)

C8_Witness ==
    /\ MergeDone
    /\ \E j, k \in 1..Len(ret.value) :
          /\ ret.value[j].attrs.highway = "primary"
          /\ ret.value[j].attrs.name = "Main St"
          /\ ~ret.value[j].attrs.bridge
          /\ ret.value[k].attrs.highway = "residential"
          /\ ret.value[k].attrs.name = "Side St"
          /\ ret.value[k].attrs.bridge

\* the names of a bucket that are not empty once surrounding whitespace is
\* removed, in input order
NonBlankNames(items) == SelectSeq(BucketNames(items), LAMBDA n : n # "")

\* C22: the name of a merged segment is the most frequent non-empty name
\* among the edges of its bucket, the first encountered on a tie, and is
\* absent when no edge of the bucket has a non-empty name; an empty or
\* whitespace-only name is never counted and never selected.
C22_NameIsMostFrequentNonBlank ==
    MergeDone =>
        \A k \in 1..Len(ret.value) :
            LET sg == ret.value[k]
                names == NonBlankNames(EdgesOf(sg.attrs.highway))
            IN /\ sg.attrs.name # ""
               /\ sg.attrs.name = IF names = <<>> THEN None ELSE MostCommon(names)

\* the bridge tag of an edge says yes: the tag is a string, a one-element
\* list of strings, a boolean or a number, and its value is "yes", "true"
\* or "1" whatever the case
TagSaysYes(attrs) ==
    LET v == Get(attrs, "bridge")
    IN CASE v.t = "str" -> lower(v.s) \in {"yes", "true", "1"}
         [] v.t = "list" -> Len(v.l) = 1 /\ lower(v.l[1]) \in {"yes", "true", "1"}
         [] v.t \in {"bool", "num"} -> lower(str(v)) \in {"yes", "true", "1"}
         [] OTHER -> FALSE

\* C23: the bridge flag of a merged segment is the logical OR of the bridge
\* indicators of the edges of its bucket, an indicator being true exactly
\* when the edge's bridge tag is "yes", "true" or "1", case-insensitively.
C23_BridgeIsOrOfTags ==
    MergeDone =>
        \A k \in 1..Len(ret.value) :
            LET own == EdgesOf(ret.value[k].attrs.highway)
            IN ret.value[k].attrs.bridge <=> \E i \in 1..Len(own) : TagSaysYes(own[i].attrs)
\* the same but for list-valued tags, which the code does not read
C23_BridgeIsOrOfScalarTags ==
    MergeDone =>
        \A k \in 1..Len(ret.value) :
            LET own == EdgesOf(ret.value[k].attrs.highway)
            IN ret.value[k].attrs.bridge
                  <=> \E i \in 1..Len(own) :
                         /\ Get(own[i].attrs, "bridge").t # "list"
                         /\ TagSaysYes(own[i].attrs)

\* the elementary pieces of a line: its steps from one vertex to the next
Pieces(l) == [i \in 1..(Len(l) - 1) |-> {l[i], l[i + 1]}]
\* how many times the piece pc0 occurs in the geometries of a sequence of
\* edges or segments
PieceCount(q, pc0) ==
    LET all == Flatten([i \in 1..Len(q) |-> Pieces(q[i].geom)])
    IN Cardinality({i \in 1..Len(all) : all[i] = pc0})
\* the bucket of category A fuses to linear geometry
FusesToLines(A) ==
    linemerge([i \in 1..Len(EdgesOf(A)) |-> EdgesOf(A)[i].geom]) # <<>>
Logged(A) == \E i \in 1..Len(log) : log[i][1] = "warning" /\ log[i][3] = A

\* C24: merging loses no edge.  Every edge has one bucket; for a bucket
\* that fuses to linear geometry every piece of every edge occurs in the
\* segments labelled with the bucket's category as often as in the edges
\* of the bucket; a bucket that does not is absent from the output and is
\* logged.
C24_NoEdgeLost ==
    MergeDone =>
        \A e \in 1..Len(call.geoms_attrs) :
            LET A == EdgeKey(call.geoms_attrs[e].attrs)
                g == call.geoms_attrs[e].geom
            IN IF FusesToLines(A)
               THEN \A i \in 1..(Len(g) - 1) :
                       PieceCount(SegmentsOf(A), {g[i], g[i + 1]})
                          = PieceCount(EdgesOf(A), {g[i], g[i + 1]})
               ELSE SegmentsOf(A) = <<>> /\ Logged(A)
\* the same for edges that have two distinct vertices
C24_NoProperEdgeLost ==
    MergeDone =>
        \A e \in 1..Len(call.geoms_attrs) :
            LET A == EdgeKey(call.geoms_attrs[e].attrs)
                g == call.geoms_attrs[e].geom
            IN ~Degenerate(g) =>
                  \A i \in 1..(Len(g) - 1) :
                     PieceCount(SegmentsOf(A), {g[i], g[i + 1]})
                        = PieceCount(SelectSeq(EdgesOf(A), LAMBDA x : ~Degenerate(x.geom)),
                                     {g[i], g[i + 1]})

(***************************************************************************)
(* processing/road_exporters.py: the procedural-road text.  A text is a    *)
(* sequence of lines, a line a tuple of its fields; <<>> is an empty line. *)
(***************************************************************************)
\* "{v:.3f}" of a fixed-point value: sign, whole part, three decimals
Fmt3(f) == <<IF f.v < 0 THEN "-" ELSE "", Abs(f.v) \div 1000, Abs(f.v) % 1000>>
\* "{v:.2f}": rounded to two decimals, ties to even
Fmt2(f) ==
    LET q == Abs(f.v) \div 10
        r == Abs(f.v) % 10
        c == IF r > 5 \/ (r = 5 /\ q % 2 = 1) THEN q + 1 ELSE q
    IN <<IF f.v < 0 THEN "-" ELSE "", c \div 100, c % 100>>

\* hasattr(road, a): a Road has the fields of the dataclass and no other
hasattr(road, a) == a \in DOMAIN road

\* lines 13-18 and 80-83: the metadata comments of a Road
MetaComments(road) ==
    (IF hasattr(road, "name") /\ road.name # None /\ road.name # ""
     THEN <<<<"  // OSM street:", road.name>>>> ELSE <<>>)
    \o (IF hasattr(road, "is_bridge") /\ road.is_bridge
        THEN <<<<"  // OSM: bridge=yes">>>> ELSE <<>>)

\* lines 77-112: the block of one Road in per-segment mode; reads road.type
PerSegmentBlock(road) ==
    <<<<"begin_procedural_roads">>>>
    \o MetaComments(road)
    \o <<<<"  road">>, <<"    width", Fmt2(road.width)>>>>
    \o (IF Gt0(road.border_width)
        THEN <<<<"    border_width", Fmt2(road.border_width)>>,
               <<"    border_height", Fmt2(road.border_height)>>>>
        ELSE <<>>)
    \o <<<<"    type", road.type>>, <<"    points">>>>
    \o [i \in 1..Len(road.points_m) |->
          <<"      ", Fmt3(road.points_m[i][1]), Fmt3(road.points_m[i][2]),
            Fmt3(road.points_m[i][3])>>]
    \o <<<<"    end_points">>, <<"  end_road">>, <<"end_procedural_roads">>>>

\* lines 46-68: the block of one Road in single-block mode; reads road.type
\* once per point
SingleBlockBlock(road) ==
    <<<<"begin_procedural_roads">>>>
    \o MetaComments(road)
    \o [i \in 1..Len(road.points_m) |->
          <<"  ", road.points_m[i][1], road.points_m[i][2], road.points_m[i][3],
            F(0), F(0), F(0), Fmt2(road.width), Fmt2(road.border_width),
            Fmt2(road.border_height), 1, 0, 0, road.type>>]
    \o <<<<"end_procedural_roads">>>>

RECURSIVE JoinBlocks(_, _)
\* sep.join(blocks), sep a sequence of lines put between two blocks
JoinBlocks(blocks, sep) ==
    IF blocks = <<>> THEN <<>>
    ELSE IF Len(blocks) = 1 THEN blocks[1]
    ELSE blocks[1] \o sep \o JoinBlocks(Tail(blocks), sep)

_export_roads_per_segment(rs) ==
    IF \E i \in 1..Len(rs) : ~hasattr(rs[i], "type") THEN Raise("AttributeError")
    ELSE Return(JoinBlocks([i \in 1..Len(rs) |-> PerSegmentBlock(rs[i])], <<>>))

_export_roads_single_block(rs) ==
    IF \E i \in 1..Len(rs) : Len(rs[i].points_m) > 0 /\ ~hasattr(rs[i], "type")
    THEN Raise("AttributeError")
    ELSE Return(JoinBlocks([i \in 1..Len(rs) |-> SingleBlockBlock(rs[i])], <<<<>>>>))

export_procedural_roads_block(rs, per_segment) ==
    IF rs = <<>> THEN Return(<<>>)
    ELSE IF per_segment THEN _export_roads_per_segment(rs)
    ELSE _export_roads_single_block(rs)

\* lines 154-157
OSM_TO_ROR_OBJECT(t) ==
    CASE t \in {"motorway", "trunk", "primary", "secondary", "tertiary",
                "footway", "path", "track"} -> "road"
      [] t \in {"residential", "living_street"} -> "road-both"
      [] t = "service" -> "road-park"
      [] OTHER -> None
map_osm_type_to_ror(t, fallback) ==
    IF t = "" THEN fallback
    ELSE IF OSM_TO_ROR_OBJECT(t) = None THEN fallback ELSE OSM_TO_ROR_OBJECT(t)

(***************************************************************************)
(* processing/tobj_exporter.py.  A file is absent, or holds the chunks     *)
(* written to it.  The result of an export is the file, what the call      *)
(* returned or raised, and the lines it logged.                            *)
(***************************************************************************)
Absent == [exists |-> FALSE, data |-> <<>>]
Holding(chunks) == [exists |-> TRUE, data |-> chunks]
OldFile == Holding(<<<<"old content">>>>)

\* export_to_tobj with objects=None and include_procedural_roads=True
export_to_tobj(f, rs, collision_tris) ==
    LET opened == <<>>      \* open(filepath, 'w') creates or truncates
        header == IF collision_tris.t # "none"
                  THEN <<<<"collision-tris", collision_tris.n>>>> ELSE <<>>
        block == export_procedural_roads_block(rs, FALSE)
    IN IF rs # <<>> /\ block.kind = "raise"
       THEN [file |-> Holding(opened \o header), ret |-> block,
             log |-> <<<<"error", "Failed to export data to tobj">>>>]
       ELSE IF rs # <<>>
       THEN [file |-> Holding(opened \o header
                              \o <<<<"text", block.value>>, <<"\n\n">>, <<"\n">>>>),
             ret |-> Return(None),
             log |-> <<<<"info", "Exported roads", Len(rs)>>>>]
       ELSE [file |-> Holding(opened \o header \o <<<<"\n">>>>),
             ret |-> Return(None),
             log |-> <<<<"warning", "No roads data provided">>>>]

export_roads_only(f, rs) ==
    LET block == export_procedural_roads_block(rs, FALSE)
    IN IF block.kind = "raise"
       THEN [file |-> f, ret |-> block,
             log |-> <<<<"error", "Failed to export roads to tobj">>>>]
       ELSE [file |-> Holding(<<<<"text", block.value>>, <<"\n\n">>>>),
             ret |-> Return(None),
             log |-> <<<<"info", "Exported roads", Len(rs)>>>>]

(***************************************************************************)
(* processing/road_network_formatter.py: build_roads_from_place.  The      *)
(* graph source is projected (metric) and gives the edges and the nodes    *)
(* that carry an elevation; yaw and pitch, which nothing reads, are left   *)
(* out.                                                                    *)
(***************************************************************************)
\* lines 38-65: the sampler is built when some node has an elevation and
\* scipy's cKDTree can be imported
ElevSampler(nodes, scipy) == IF nodes # <<>> /\ scipy THEN nodes ELSE <<>>

SqDist(p, q) == (p[1] - q[1]) * (p[1] - q[1]) + (p[2] - q[2]) * (p[2] - q[2])
\* tree.query(q, k=1): the index of a nearest sample
Nearest(samples, q) ==
    CHOOSE i \in 1..Len(samples) :
        /\ \A j \in 1..Len(samples) : SqDist(samples[i].xy, q) <= SqDist(samples[j].xy, q)
        /\ \A j \in 1..(i - 1) : SqDist(samples[j].xy, q) > SqDist(samples[i].xy, q)

\* lines 100-104: local_xz of a segment, with INVERT_Y_AXIS = True and the
\* world offsets 0
LocalXZ(ls, origin) ==
    [i \in 1..Len(ls) |-> <<(ls[i][1] - origin[1]) + 0, -(ls[i][2] - origin[2]) + 0>>]

\* A plausible slip: the query position keeps the inverted north axis.
SampledZNoInvert(local_xz, origin, sampler) ==
    IF sampler # <<>>
    THEN [i \in 1..Len(local_xz) |->
            sampler[Nearest(sampler, <<local_xz[i][1] + origin[1],
                                       local_xz[i][2] + origin[2]>>)].elev]
    ELSE [i \in 1..Len(local_xz) |-> 0]

\* lines 115-126: sampled_z
SampledZ(local_xz, origin, sampler) ==
    IF sampler # <<>>
    THEN [i \in 1..Len(local_xz) |->
            sampler[Nearest(sampler, <<local_xz[i][1] + origin[1],
                                       -local_xz[i][2] + origin[2]>>)].elev]
    ELSE [i \in 1..Len(local_xz) |-> 0]

\* lines 130-155: local_pts_m, each point (px, py, pz) with py the elevation
LocalPts(ls, origin, sampler) ==
    LET local_xz == LocalXZ(ls, origin)
        sampled_z == SampledZ(local_xz, origin, sampler)
    IN [i \in 1..Len(local_xz) |-> <<F(local_xz[i][1]), F(sampled_z[i]), F(local_xz[i][2])>>]

PathLike == {"cycleway", "footway", "path"}

\* lines 170-185: the keyword arguments of the Road(...) call
RoadCallKwargs(pts, attrs) ==
    [points_m |-> pts,
     width |-> F(7000),
     border_width |-> F(0),
     border_height |-> F(0),
     type |-> IF attrs.bridge THEN "roadbridge"
              ELSE map_osm_type_to_ror(attrs.highway, "road"),
     name |-> IF attrs.name # None /\ attrs.name # "" THEN attrs.name ELSE None,
     is_bridge |-> attrs.bridge]

PipelineEdges ==
    { [geom |-> <<N0, N1>>, attrs |-> [highway |-> PyStr("primary"), name |-> PyStr("Main St")]],
      [geom |-> <<N1, N2>>, attrs |-> [highway |-> PyStr("primary")]],
      [geom |-> <<N3, N1>>, attrs |-> [highway |-> PyStr("footway")]],
      [geom |-> <<N1, N3>>, attrs |-> [highway |-> PyStr("residential"),
                                       bridge |-> PyStr("yes")]],
      [geom |-> <<N0, N3>>, attrs |-> [highway |-> PyStr("path"), name |-> PyStr("Side St")]] }
NodeSamples ==
    { <<>>,
      <<[xy |-> N0, elev |-> 10000], [xy |-> N2, elev |-> 20000]>>,
      <<[xy |-> N0, elev |-> 10000], [xy |-> N2, elev |-> 20000], [xy |-> N3, elev |-> 30000]>> }

RenderKwargs ==
    { [points_m |-> <<<<F(0), F(0), F(0)>>, <<F(1000), F(0), F(0)>>>>,
       width |-> F(7000), kind |-> "road"],
      [points_m |-> <<<<F(0), F(0), F(0)>>, <<F(1000), F(250), F(-1000)>>>>,
       width |-> F(7000), kind |-> "roadbridge", name |-> "Main St", is_bridge |-> TRUE],
      [points_m |-> <<<<F(0), F(0), F(0)>>, <<F(0), F(1000), F(0)>>, <<F(1000), F(1000), F(5)>>>>,
       width |-> F(3505), border_width |-> F(500), border_height |-> F(200),
       kind |-> "road-both", name |-> ""],
      [points_m |-> <<<<F(-1000), F(0), F(0)>>, <<F(1000), F(0), F(0)>>>>,
       width |-> F(7000), name |-> "Side St"] }
\* the Roads that exist: the values Road(...) returns
RenderRoads == {Road__init__(k).value : k \in {q \in RenderKwargs : Road__init__(q).kind = "return"}}
RoadLists == SeqsUpTo(RenderRoads, MaxRoads)

InitPipeline ==
    /\ call \in {[op |-> "build_roads_from_place", geoms_attrs |-> g, densify_step_m |-> st,
                  origin |-> o, nodes |-> nd, scipy |-> sc] :
                    g \in SeqsUpTo(PipelineEdges, MaxSegs), st \in {5000, 0},
                    o \in {N0, N1}, nd \in NodeSamples, sc \in BOOLEAN}
    /\ pc = "start"

InitExport ==
    /\ call \in {[op |-> "export_to_tobj", roads |-> rs, collision_tris |-> ct] :
                    rs \in RoadLists, ct \in {PyNone, PyNum(12)}}
               \cup {[op |-> "export_roads_only", roads |-> rs] : rs \in RoadLists}
               \cup {[op |-> "export_procedural_roads_block", roads |-> rs, per_segment |-> b] :
                        rs \in RoadLists, b \in BOOLEAN}
    /\ pc = "call"

Init ==
    /\ InitPipeline \/ InitExport
    /\ ret = NoRet
    /\ merged_dense = <<>>
    /\ idx = 0
    /\ roads = <<>>
    /\ valid_segments = 0
    /\ log = <<>>
    /\ file \in {Absent, OldFile}
    /\ dist = 0
    /\ out_pts = <<>>
    /\ boxes = <<>>
    /\ requests = <<>>
    /\ current_map = [data |-> <<>>, elevation_data |-> <<>>]

\* lines 34-37 and 81: merge, densify, report the number of segments
PipelinePrepare ==
    /\ call.op = "build_roads_from_place"
    /\ pc = "start"
    /\ LET merged == merge_by_highway(call.geoms_attrs)
           dense == [i \in 1..Len(merged) |-> densify_linestring(merged[i].geom, call.densify_step_m)]
       IN IF \E i \in 1..Len(merged) : dense[i].kind = "raise"
          THEN /\ ret' = Raise("ValueError")
               /\ pc' = "failed_prepare"
               /\ log' = log \o MergeWarnings(call.geoms_attrs)
               /\ UNCHANGED <<merged_dense, idx>>
          ELSE /\ merged_dense' = [i \in 1..Len(merged) |->
                                     [geom |-> dense[i].value, attrs |-> merged[i].attrs]]
               /\ idx' = 1
               /\ log' = Append(log \o MergeWarnings(call.geoms_attrs),
                                <<"info", "Total segments before filtering", Len(merged)>>)
               /\ pc' = "loop"
               /\ UNCHANGED ret
    /\ UNCHANGED <<call, roads, valid_segments, file, dist, out_pts, boxes, requests, current_map>>

\* lines 92-187: one iteration of the loop over merged_dense
PipelineSegment ==
    /\ call.op = "build_roads_from_place"
    /\ pc = "loop"
    /\ idx <= Len(merged_dense)
    /\ LET sg == merged_dense[idx]
           pts == LocalPts(sg.geom, call.origin, ElevSampler(call.nodes, call.scipy))
           attrs == [k \in DOMAIN sg.attrs \cup {"points_m"} |->
                        IF k = "points_m" THEN pts ELSE sg.attrs[k]]
           made == Road__init__(RoadCallKwargs(pts, sg.attrs))
       IN /\ merged_dense' = [merged_dense EXCEPT ![idx] = [geom |-> sg.geom, attrs |-> attrs]]
          /\ valid_segments' = valid_segments + 1
          /\ IF sg.attrs.highway \in PathLike
             THEN /\ idx' = idx + 1
                  /\ UNCHANGED <<roads, log, ret, pc>>
             ELSE IF made.kind = "return"
             THEN /\ roads' = Append(roads, made.value)
                  /\ idx' = idx + 1
                  /\ UNCHANGED <<log, ret, pc>>
             ELSE IF made.exc = "ValueError"
             THEN /\ log' = Append(log, <<"warning", "Skipping road due to error", idx>>)
                  /\ idx' = idx + 1
                  /\ UNCHANGED <<roads, ret, pc>>
             ELSE /\ ret' = made
                  /\ pc' = "failed_loop"
                  /\ UNCHANGED <<roads, log, idx>>
    /\ UNCHANGED <<call, file, dist, out_pts, boxes, requests, current_map>>

\* lines 188-201: report, export, return the path
PipelineExport ==
    /\ call.op = "build_roads_from_place"
    /\ pc = "loop"
    /\ idx > Len(merged_dense)
    /\ LET out == export_to_tobj(file, roads, PyNone)
       IN /\ file' = out.file
          /\ log' = Append(log, <<"info", "Total segments after filtering", valid_segments>>)
                    \o out.log
          /\ ret' = IF out.ret.kind = "raise" THEN out.ret ELSE Return("terrain_roads.tobj")
          /\ pc' = IF out.ret.kind = "raise" THEN "failed_export" ELSE "done"
    /\ UNCHANGED <<call, merged_dense, idx, roads, valid_segments, dist, out_pts, boxes, requests, current_map>>

ExportToTobj ==
    /\ call.op = "export_to_tobj"
    /\ pc = "call"
    /\ LET out == export_to_tobj(file, call.roads, call.collision_tris)
       IN /\ file' = out.file
          /\ log' = log \o out.log
          /\ ret' = out.ret
    /\ pc' = "done"
    /\ UNCHANGED <<call, merged_dense, idx, roads, valid_segments, dist, out_pts, boxes, requests, current_map>>

ExportRoadsOnly ==
    /\ call.op = "export_roads_only"
    /\ pc = "call"
    /\ LET out == export_roads_only(file, call.roads)
       IN /\ file' = out.file
          /\ log' = log \o out.log
          /\ ret' = out.ret
    /\ pc' = "done"
    /\ UNCHANGED <<call, merged_dense, idx, roads, valid_segments, dist, out_pts, boxes, requests, current_map>>

ExportProceduralRoadsBlock ==
    /\ call.op = "export_procedural_roads_block"
    /\ pc = "call"
    /\ ret' = export_procedural_roads_block(call.roads, call.per_segment)
    /\ pc' = "done"
    /\ UNCHANGED <<call, merged_dense, idx, roads, valid_segments, log, file, dist, out_pts, boxes, requests, current_map>>

Next ==
    \/ PipelinePrepare
    \/ PipelineSegment
    \/ PipelineExport
    \/ ExportToTobj
    \/ ExportRoadsOnly
    \/ ExportProceduralRoadsBlock

Spec == Init /\ [][Next]_vars

(***************************************************************************)
(* Properties of the pipeline and of the serializer.                       *)
(***************************************************************************)
IsRun == call.op = "build_roads_from_place"
IsRender == call.op = "export_procedural_roads_block"

\* A segment of the run passes when its category is not filtered out and
\* its candidate satisfies the Road invariants (width 7 and finite
\* coordinates are given): at least two points, non-zero planar length.
Passes(sg) ==
    /\ sg.attrs.highway \notin PathLike
    /\ Len(sg.attrs.points_m) >= 2
    /\ PlanarLength(sg.attrs.points_m) # 0

\* C3: a segment whose candidate fails is left out and the run continues;
\* every segment that passes category filtering and validation is in the
\* Road list once, in segment order; the run reaches the export step and no
\* failure local to one segment aborts it.
C3_SegmentFailureDoesNotAbortRun ==
    IsRun =>
        /\ pc # "failed_loop"
        /\ pc = "done" =>
              LET passing == SelectSeq(merged_dense, Passes)
              IN /\ Len(roads) = Len(passing)
                 /\ \A k \in 1..Len(passing) : roads[k].points_m = passing[k].attrs.points_m

\* C4: the output file is touched only once the complete Road list is
\* assembled, and a step that fails, rendering included, leaves the file
\* exactly as it was.
C4_FileTouchedOnlyAfterAssemblyAndNeverOnFailure ==
    [][file' # file =>
          /\ IsRun => (pc = "loop" /\ idx > Len(merged_dense))
          /\ ret'.kind # "raise"]_vars

CountLines(text, tag) ==
    Cardinality({i \in 1..Len(text) : text[i] # <<>> /\ text[i][1] = tag})

\* C5: for n >= 1 Roads, aggregated mode renders one begin/end pair
\* enclosing n road ... end_road entries; per-segment mode renders n
\* begin/end pairs of one road entry each.
C5_BlocksPerMode ==
    (IsRender /\ pc = "done" /\ Len(call.roads) >= 1) =>
        /\ ret.kind = "return"
        /\ LET n == Len(call.roads)
               pairs == IF call.per_segment THEN n ELSE 1
           IN /\ CountLines(ret.value, "begin_procedural_roads") = pairs
              /\ CountLines(ret.value, "end_procedural_roads") = pairs
              /\ CountLines(ret.value, "  road") = n
              /\ CountLines(ret.value, "  end_road") = n

\* The lines the format prescribes for one Road, its type label being the
\* label the Road carries.
PrescribedLines(road) ==
    MetaComments(road)
    \o <<<<"    width", Fmt2(road.width)>>>>
    \o (IF Gt0(road.border_width)
        THEN <<<<"    border_width", Fmt2(road.border_width)>>,
               <<"    border_height", Fmt2(road.border_height)>>>>
        ELSE <<>>)
    \o <<<<"    type", road.kind>>, <<"    points">>>>
    \o [i \in 1..Len(road.points_m) |->
          <<"      ", Fmt3(road.points_m[i][1]), Fmt3(road.points_m[i][2]),
            Fmt3(road.points_m[i][3])>>]
    \o <<<<"    end_points">>, <<"  end_road">>>>
IsMarker(line) ==
    \/ line = <<>>
    \/ /\ Len(line) = 1
       /\ line[1] \in {"begin_procedural_roads", "end_procedural_roads", "  road"}

\* C6: rendering valid Roads never fails, and in either mode the lines of
\* each Road are, in order, its comments, width, border declarations when
\* border_width > 0, type, the points marker, one 3-decimal line per point,
\* end_points, end_road, inside balanced begin/end markers.
C6_RoadLinesInOrder ==
    (IsRender /\ pc = "done") =>
        /\ ret.kind = "return"
        /\ SelectSeq(ret.value, LAMBDA line : ~IsMarker(line))
              = Flatten([i \in 1..Len(call.roads) |-> PrescribedLines(call.roads[i])])
        /\ CountLines(ret.value, "begin_procedural_roads")
              = CountLines(ret.value, "end_procedural_roads")

IsPointLine(line) == line # <<>> /\ line[1] = "      "
\* C7: render returns the same text on a second call, and the road entries
\* of the text are in the order of the input list.
C7_SameTextInInputOrder ==
    (IsRender /\ pc = "done") =>
        /\ ret.kind = "return"
        /\ export_procedural_roads_block(call.roads, call.per_segment) = ret
        /\ SelectSeq(ret.value, IsPointLine)
              = Flatten([i \in 1..Len(call.roads) |->
                           [j \in 1..Len(call.roads[i].points_m) |->
                               <<"      ", Fmt3(call.roads[i].points_m[j][1]),
                                 Fmt3(call.roads[i].points_m[j][2]),
                                 Fmt3(call.roads[i].points_m[j][3])>>]])

\* The sampler of the run, and the segments the loop has been through.
Sampler == ElevSampler(call.nodes, call.scipy)
Sampled(k) == "points_m" \in DOMAIN merged_dense[k].attrs

\* C14: every vertex of every segment gets the elevation of a sample whose
\* distance to the vertex's metric position is minimal among all samples,
\* and a segment gets as many elevations as it has vertices.
C14_ElevationOfNearestSample ==
    (IsRun /\ Sampler # <<>>) =>
        \A k \in 1..Len(merged_dense) :
            Sampled(k) =>
                LET g == merged_dense[k].geom
                    pts == merged_dense[k].attrs.points_m
                IN /\ Len(pts) = Len(g)
                   /\ \A i \in 1..Len(g) :
                         \E j \in 1..Len(Sampler) :
                            /\ pts[i][2] = F(Sampler[j].elev)
                            /\ \A j2 \in 1..Len(Sampler) :
                                  SqDist(Sampler[j].xy, g[i]) <= SqDist(Sampler[j2].xy, g[i])

\* A segment off the origin's east-west axis, with a sample at its far end
\* and vertices that take their elevations from different samples.
C14_Witness ==
    /\ IsRun /\ Len(Sampler) = 3
    /\ \E k \in 1..Len(merged_dense) :
          /\ Sampled(k)
          /\ LET g == merged_dense[k].geom
                 pts == merged_dense[k].attrs.points_m
             IN /\ Len(pts) >= 3
                /\ g[Len(g)] = N3
                /\ pts[Len(pts)][2] = F(30000)
                /\ pts[1][2] # pts[Len(pts)][2]

\* C15: with no elevation sample (no node carries an elevation, or the
\* sampler could not be built) the run does not fail: every vertex of every
\* segment gets elevation 0 and the run goes on to Road construction and
\* the output.
C15_NoSamplesElevationZeroAndRunContinues ==
    (IsRun /\ Sampler = <<>>) =>
        /\ pc \notin {"failed_loop", "failed_export"}
        /\ \A k \in 1..Len(merged_dense) :
              Sampled(k) =>
                 \A i \in 1..Len(merged_dense[k].attrs.points_m) :
                    merged_dense[k].attrs.points_m[i][2] = F(0)

\* The scenario of two collinear primary edges (0,0)-(10,0) and
\* (10,0)-(20,0), resampled every 5 m, with elevation samples 10 at the
\* start and 20 at the end, seen from the origin (0,0).
TwoPrimaryEdges ==
    /\ IsRun
    /\ Len(call.geoms_attrs) = 2
    /\ call.geoms_attrs[1].geom = <<N0, N1>>
    /\ call.geoms_attrs[2].geom = <<N1, N2>>
    /\ \A i \in 1..2 : call.geoms_attrs[i].attrs.highway = PyStr("primary")
    /\ call.densify_step_m = 5000
    /\ call.origin = N0
    /\ call.scipy
    /\ call.nodes = <<[xy |-> N0, elev |-> 10000], [xy |-> N2, elev |-> 20000]>>

\* C21: the two edges merge into one segment; resampling gives the five
\* vertices x = 0, 5, 10, 15, 20; the vertices strictly nearer the start
\* get elevation 10 and those strictly nearer the end get 20; the run
\* builds one valid Road and writes one road entry with five point lines.
C21_TwoEdgesOneRoadFivePoints ==
    TwoPrimaryEdges =>
        /\ pc \notin {"failed_prepare", "failed_loop", "failed_export"}
        /\ pc # "start" =>
              /\ Len(merged_dense) = 1
              /\ merged_dense[1].geom
                    = <<<<0, 0>>, <<5000, 0>>, <<10000, 0>>, <<15000, 0>>, <<20000, 0>>>>
              /\ Sampled(1) =>
                    LET pts == merged_dense[1].attrs.points_m
                    IN /\ pts[1][2] = F(10000) /\ pts[2][2] = F(10000)
                       /\ pts[4][2] = F(20000) /\ pts[5][2] = F(20000)
        /\ pc = "done" =>
              /\ Len(roads) = 1
              /\ Len(roads[1].points_m) = 5
              /\ \E c \in 1..Len(file.data) :
                    /\ file.data[c][1] = "text"
                    /\ CountLines(file.data[c][2], "  road") = 1
                    /\ CountLines(file.data[c][2], "      ") = 5
\* the part of the scenario that precedes Road construction
C21_MergedResampledSampled ==
    (TwoPrimaryEdges /\ pc # "start") =>
        /\ Len(merged_dense) = 1
        /\ Len(merged_dense[1].geom) = 5
        /\ Sampled(1) => merged_dense[1].attrs.points_m[5][2] = F(20000)

\* the number a run reported under the given heading
Reported(title) ==
    LET i == CHOOSE j \in 1..Len(log) : log[j][2] = title
    IN log[i][3]

\* C25: at the end of a run the reported count after filtering is the
\* number of Roads in the output list, and it is smaller than the reported
\* count before filtering by the number of segments skipped by category
\* filtering or rejected by Road validation.
C25_ReportedCountsMatchRoads ==
    (IsRun /\ pc = "done") =>
        /\ Reported("Total segments after filtering") = Len(roads)
        /\ Reported("Total segments before filtering")
              - Reported("Total segments after filtering")
              = Len(SelectSeq(merged_dense, LAMBDA sg : ~Passes(sg)))

(***************************************************************************)
(* utils/bbox.py: the BBox class.  A BBox object is a record of its six    *)
(* attributes; a source handed to the constructor is tagged with its       *)
(* Python type.  A coordinate is a float [fin, v]; a CRS is a string.      *)
(***************************************************************************)
\* isinstance(x, Number)
IsNumber(x) == "fin" \in DOMAIN x

\* a < b on floats: false with a nan, -inf below and +inf above the rest
Lt(a, b) ==
    IF a.fin /\ b.fin THEN a.v < b.v
    ELSE IF a = NaN \/ b = NaN THEN FALSE
    ELSE IF a.fin THEN b = PosInf
    ELSE IF b.fin THEN a = NegInf
    ELSE a = NegInf /\ b = PosInf

\* float(x): a number converts; a string that is no numeral is a
\* ValueError, None a TypeError
float(x) ==
    IF IsNumber(x) THEN Return(x)
    ELSE IF x.t = "str" THEN Raise("ValueError")
    ELSE Raise("TypeError")

\* pyproj.CRS.from_user_input(s) succeeds, and crs.is_geographic
Resolvable(s) == s \in {"EPSG:4326", "EPSG:3857", "EPSG:32633"}
is_geographic(s) == s = "EPSG:4326"

\* sub in s.lower(), on the CRS strings the model uses
Contains(s, sub) ==
    <<s, sub>> \in {<<"EPSG:4326", "4326">>, <<"EPSG:4326", "epsg">>,
                    <<"EPSG:3857", "3857">>, <<"EPSG:3857", "epsg">>,
                    <<"EPSG:32633", "epsg">>, <<"EPSG:99999", "epsg">>,
                    <<"EPSG:43260", "4326">>, <<"EPSG:43260", "epsg">>,
                    <<"Mercator", "mercator">>}
\* int(''.join(ch for ch in sl if ch.isdigit())): -1 stands for ValueError
DigitsOf(s) ==
    CASE s = "EPSG:4326" -> 4326
      [] s = "EPSG:3857" -> 3857
      [] s = "EPSG:32633" -> 32633
      [] s = "EPSG:99999" -> 99999
      [] s = "EPSG:43260" -> 43260
      [] OTHER -> -1

\* lines 169-199; env tells which optional libraries can be imported
_determine_is_projected(crs_input, env) ==
    IF crs_input = None THEN FALSE
    ELSE IF env.pyproj /\ Resolvable(crs_input) THEN ~is_geographic(crs_input)
    ELSE IF \E w \in {"4326", "wgs84", "lonlat", "geog", "geographic"} : Contains(crs_input, w)
         THEN FALSE
    ELSE IF \E w \in {"3857", "mercator", "meter", "metre"} : Contains(crs_input, w)
         THEN TRUE
    ELSE IF Contains(crs_input, "epsg")
         THEN (DigitsOf(crs_input) = -1 \/ DigitsOf(crs_input) # 4326)
    ELSE FALSE

\* A plausible slip: only the east-west order is checked.
_validateWestEastOnly(self) ==
    IF ~Lt(self.west, self.east) THEN Raise("ValueError") ELSE Return(self)

\* lines 163-167 (the four attributes are floats by then)
_validate(self) ==
    IF ~(Lt(self.west, self.east) /\ Lt(self.south, self.north))
    THEN Raise("ValueError")
    ELSE Return(self)

\* The assignments shared by the constructor's branches: float() of the
\* four values in order, the CRS, _validate, then the projected flag.
FromFour(vals, crs, projected) ==
    LET bad == {i \in 1..4 : float(vals[i]).kind = "raise"}
    IN IF bad # {}
       THEN float(vals[CHOOSE i \in bad : \A j \in bad : i <= j])
       ELSE _validate([west |-> vals[1], south |-> vals[2], east |-> vals[3],
                       north |-> vals[4], crs |-> crs, is_projected |-> projected])

KeyVariants ==
    << <<"west", "south", "east", "north">>,
       <<"minx", "miny", "maxx", "maxy">>,
       <<"left", "bottom", "right", "top">> >>

\* lines 144-161
_from_dict(d, env) ==
    LET lower_keys == {lower(k) : k \in DOMAIN d}
        value(lk) == d[CHOOSE k \in DOMAIN d : lower(k) = lk]
        complete == {v \in 1..3 : \A i \in 1..4 : KeyVariants[v][i] \in lower_keys}
        crs == IF "crs" \in DOMAIN d THEN d.crs ELSE None
    IN IF complete = {} THEN Raise("ValueError")
       ELSE LET keys == KeyVariants[CHOOSE v \in complete : \A u \in complete : v <= u]
            IN FromFour([i \in 1..4 |-> value(keys[i])], crs,
                        _determine_is_projected(crs, env))

\* getattr(src, name, None) on an object
Getattr(o, name) == IF name \in DOMAIN o THEN o[name] ELSE None

\* lines 33-142: BBox(src); heap holds the BBox objects that exist
BBox__init__(src, heap, env) ==
    CASE src.t = "none" -> Raise("ValueError")
      [] src.t = "bbox" ->
            Return([west |-> heap[src.ref].west, south |-> heap[src.ref].south,
                    east |-> heap[src.ref].east, north |-> heap[src.ref].north,
                    crs |-> heap[src.ref].crs,
                    is_projected |-> heap[src.ref].is_projected])
      [] src.t = "dict" -> _from_dict(src.d, env)
      [] src.t = "tuple" /\ Len(src.v) = 4 ->
            IF \E i \in 1..4 : ~IsNumber(src.v[i]) THEN Raise("ValueError")
            ELSE FromFour(src.v, None, FALSE)
      [] src.t = "object" ->
            LET crs == Getattr(src.o, "crs")
                projected == _determine_is_projected(crs, env)
                by_total == IF "total_bounds" \in DOMAIN src.o /\ Len(src.o.total_bounds) = 4
                            THEN FromFour(src.o.total_bounds, crs, projected)
                            ELSE Raise("ValueError")
            IN IF by_total.kind = "return" THEN by_total
               ELSE IF "bounds" \in DOMAIN src.o /\ Len(src.o.bounds) = 4
               THEN FromFour(src.o.bounds, crs, projected)
               ELSE Raise("ValueError")
      [] OTHER -> Raise("ValueError")

\* A plausible slip: the order osmnx wants (north, south, east, west).
to_tupleNSEW(self) == <<self.north, self.south, self.east, self.west>>

\* lines 204-205
to_tuple(self) == <<self.west, self.south, self.east, self.north>>

\* GeoDataFrame.to_crs on the box: degrees and metres differ by a scale
\* (two projected systems differ by a shift of the origin)
MetresPerDegree == 100
Project(x, from_crs, to_crs) ==
    IF ~x.fin \/ from_crs = to_crs THEN x
    ELSE IF is_geographic(from_crs) THEN F(x.v * MetresPerDegree)
    ELSE IF is_geographic(to_crs) THEN F(RoundDiv(x.v, MetresPerDegree))
    ELSE IF to_crs = "EPSG:32633" THEN F(x.v + 500000)
    ELSE F(x.v - 500000)

\* lines 219-250: the BBox reproject returns, or what it raises
reproject(self, to_crs, env) ==
    IF ~env.geopandas THEN Raise("RuntimeError")
    ELSE IF self.crs = None \/ ~Resolvable(self.crs) THEN Raise("ValueError")
    ELSE IF ~Resolvable(to_crs) THEN Raise("CRSError")
    ELSE LET tb == [i \in 1..4 |-> Project(to_tuple(self)[i], self.crs, to_crs)]
             new == FromFour(tb, None, FALSE)
         IN IF new.kind = "raise" THEN new
            ELSE Return([new.value EXCEPT !.crs = to_crs,
                                          !.is_projected = _determine_is_projected(to_crs, env)])

(***************************************************************************)
(* BBox objects: one is built from a raw source, further ones are copies   *)
(* or reprojections of those that exist.                                   *)
(***************************************************************************)
Envs ==
    {[pyproj |-> TRUE, geopandas |-> TRUE],
     [pyproj |-> TRUE, geopandas |-> FALSE],
     [pyproj |-> FALSE, geopandas |-> FALSE]}

\* <<west, south, east, north>> as handed in
NumericQuads ==
    {<<w, s, e, n>> : w \in {F(0), NegInf, NaN}, s \in {F(0), F(2000)},
                      e \in {F(1000), F(0), PosInf}, n \in {F(1000), F(0)}}
Quads ==
    NumericQuads \cup {<<PyStr("abc"), F(0), F(1000), F(1000)>>,
                       <<F(0), F(0), F(1000), PyNone>>}

SourceCRSs == {None, "EPSG:4326", "EPSG:3857", "EPSG:99999", "EPSG:43260", "Mercator"}
TargetCRSs == {"EPSG:4326", "EPSG:3857", "EPSG:32633", "bogus"}

KeySpellings == {KeyVariants[v] : v \in 1..3} \cup {<<"West", "South", "East", "North">>}

\* the dict {keys[i]: q[i]} over the positions in at, with "crs" when given
DictOf(keys, q, at, crs) ==
    [k \in {keys[i] : i \in at} \cup (IF crs = None THEN {} ELSE {"crs"}) |->
        IF k = "crs" THEN crs ELSE q[CHOOSE i \in at : keys[i] = k]]

\* an object exposing the attribute attr (total_bounds or bounds), and crs
\* when given
ObjectOf(attr, q, crs) ==
    [k \in {attr} \cup (IF crs = None THEN {} ELSE {"crs"}) |->
        IF k = "crs" THEN crs ELSE q]

TupleSources ==
    {[t |-> "tuple", v |-> q] : q \in Quads}
    \cup {[t |-> "tuple", v |-> <<F(0), F(0), F(1000)>>],
          [t |-> "tuple", v |-> <<F(0), F(0), F(1000), F(1000), F(0)>>]}
DictSources ==
    {[t |-> "dict", d |-> DictOf(ks, q, 1..4, c)] :
        ks \in KeySpellings, q \in Quads, c \in SourceCRSs}
    \cup {[t |-> "dict", d |-> DictOf(KeyVariants[1], q, 1..3, None)] : q \in NumericQuads}
    \cup {[t |-> "dict", d |-> DictOf(<<"west", "miny", "maxx", "north">>, q, 1..4, None)] :
            q \in NumericQuads}
ObjectSources ==
    {[t |-> "object", o |-> ObjectOf(a, q, c)] :
        a \in {"total_bounds", "bounds"}, q \in Quads, c \in SourceCRSs}
    \cup {[t |-> "object", o |-> ObjectOf(a, <<F(0), F(0), F(1000)>>, None)] :
            a \in {"total_bounds", "bounds"}}
OtherSources == {PyNone, PyStr("abc"), PyNum(5)}
RawSources == TupleSources \cup DictSources \cup ObjectSources \cup OtherSources

\* A plausible slip: lines 248-249 set the CRS on the receiver as well.
ReprojectedInPlace(heap, i, new) == Append([heap EXCEPT ![i].crs = new.crs], new)

\* line 246: reproject makes a new object and leaves its receiver alone
Reprojected(heap, i, new) == Append(heap, new)

InitBBox ==
    /\ call = [op |-> "none"]
    /\ ret = NoRet
    /\ pc = "idle"
    /\ Idle

\* BBox(src): the new object joins those that exist, unless the constructor
\* raises
Construct(src, env) ==
    /\ call' = [op |-> "BBox", src |-> src, env |-> env]
    /\ LET made == BBox__init__(src, boxes, env)
       IN IF made.kind = "return"
          THEN /\ boxes' = Append(boxes, made.value)
               /\ ret' = Return(Len(boxes) + 1)
          ELSE /\ ret' = made
               /\ UNCHANGED boxes

BBoxFromSource ==
    /\ pc = "idle"
    /\ call.op = "none"
    /\ \E src \in RawSources, env \in Envs : Construct(src, env)
    /\ UNCHANGED <<pc, merged_dense, idx, roads, valid_segments, log, file, dist, out_pts,
                   requests, current_map>>

BBoxCopy ==
    /\ pc = "idle"
    /\ Len(boxes) < MaxBoxes
    /\ \E i \in 1..Len(boxes), env \in Envs : Construct([t |-> "bbox", ref |-> i], env)
    /\ UNCHANGED <<pc, merged_dense, idx, roads, valid_segments, log, file, dist, out_pts,
                   requests, current_map>>

\* boxes[i].reproject(to_crs)
BBoxReproject ==
    /\ pc = "idle"
    /\ Len(boxes) < MaxBoxes
    /\ Len(log) < MaxBoxes
    /\ \E i \in 1..Len(boxes), to_crs \in TargetCRSs, env \in Envs :
          /\ call' = [op |-> "reproject", self |-> i, to_crs |-> to_crs, env |-> env]
          /\ LET new == reproject(boxes[i], to_crs, env)
             IN IF new.kind = "return"
                THEN /\ boxes' = Reprojected(boxes, i, new.value)
                     /\ ret' = Return(Len(boxes) + 1)
                ELSE /\ ret' = new
                     /\ UNCHANGED boxes
          /\ log' = IF ret' = Raise("RuntimeError")
                    THEN Append(log, <<"warning", "Reprojection requires geopandas and pyproj", 0>>)
                    ELSE log
    /\ UNCHANGED <<pc, merged_dense, idx, roads, valid_segments, file, dist, out_pts, requests, current_map>>

(***************************************************************************)
(* data/osm_loader.py load_graph and processing/heightmap_handler.py       *)
(* fetch_elevation_from_api: a bounding box is normalised, reprojected to  *)
(* geographic coordinates when it is projected, and sent to the external   *)
(* source.  Both modules import geopandas, so every library is there.      *)
(***************************************************************************)
FullEnv == [pyproj |-> TRUE, geopandas |-> TRUE]

\* truth value of a bbox argument
TruthySource(src) ==
    CASE src.t = "none" -> FALSE
      [] src.t = "tuple" -> src.v # <<>>
      [] src.t = "dict" -> DOMAIN src.d # {}
      [] OTHER -> TRUE

\* osm_loader.py lines 24-31, heightmap_handler.py lines 71-78: the box the
\* request is made with, and what is logged on the way
Geographic(bbox_obj, who) ==
    IF ~bbox_obj.is_projected THEN [box |-> bbox_obj, log |-> <<>>]
    ELSE LET bbox_geo == reproject(bbox_obj, "EPSG:4326", FullEnv)
         IN IF bbox_geo.kind = "return"
            THEN [box |-> bbox_geo.value,
                  log |-> << <<"info", "Reprojected bbox to EPSG:4326", who>> >>]
            ELSE [box |-> bbox_obj,
                  log |-> << <<"warning", "Could not reproject bbox, proceeding with original bbox",
                               who>> >>]

\* osm_loader.py lines 12-38; ok tells whether the external source answers
LoadGraph ==
    /\ pc = "idle"
    /\ call.op = "none"
    /\ \E place \in {None, "Springfield"}, src \in RawSources, ok \in BOOLEAN :
          /\ call' = [op |-> "load_graph", place |-> place, bbox |-> src, ok |-> ok]
          /\ LET made == BBox__init__(src, boxes, FullEnv)
                 geo == Geographic(made.value, 1)
             IN IF place # None
                THEN /\ requests' = Append(requests, [to |-> "osmnx.graph_from_place",
                                                      place |-> place])
                     /\ log' = Append(log, <<"info", "Loading graph for place", 1>>)
                     /\ ret' = IF ok THEN Return("G") ELSE Raise("RequestError")
                ELSE IF ~TruthySource(src)
                THEN /\ log' = Append(log, <<"warning", "Neither place nor bbox provided", 1>>)
                     /\ ret' = Raise("ValueError")
                     /\ UNCHANGED requests
                ELSE IF made.kind = "raise"
                THEN /\ log' = log \o << <<"info", "Loading graph for bbox", 1>>,
                                         <<"warning", "Invalid bbox provided to load_graph", 1>> >>
                     /\ ret' = made
                     /\ UNCHANGED requests
                ELSE /\ requests' = Append(requests, [to |-> "osmnx.graph_from_bbox",
                                                      box |-> geo.box])
                     /\ log' = (log \o << <<"info", "Loading graph for bbox", 1>> >> \o geo.log)
                               \o (IF ok THEN << <<"info", "Graph loaded", 1>> >> ELSE <<>>)
                     /\ ret' = IF ok THEN Return("G") ELSE Raise("RequestError")
    /\ pc' = "done"
    /\ UNCHANGED <<merged_dense, idx, roads, valid_segments, file, dist, out_pts, boxes,
                   current_map>>

\* heightmap_handler.py lines 19-106
FetchElevationFromApi ==
    /\ pc = "idle"
    /\ call.op = "none"
    /\ \E src \in RawSources, ok \in BOOLEAN :
          /\ call' = [op |-> "fetch_elevation_from_api", bounds |-> src, ok |-> ok]
          /\ LET made == BBox__init__(src, boxes, FullEnv)
                 geo == Geographic(made.value, 2)
             IN IF made.kind = "raise"
                THEN /\ log' = log \o << <<"info", "Using OpenTopography API Key", 2>>,
                                         <<"error", "Invalid bbox for elevation API", 2>> >>
                     /\ ret' = made
                     /\ UNCHANGED requests
                ELSE /\ requests' = Append(requests, [to |-> "opentopography.globaldem",
                                                      box |-> geo.box])
                     /\ log' = (log \o << <<"info", "Using OpenTopography API Key", 2>> >>
                                    \o geo.log)
                               \o (IF ok THEN << <<"info", "Elevation data downloaded", 2>> >>
                                   ELSE << <<"error", "Failed to fetch elevation data", 2>> >>)
                     /\ ret' = IF ok THEN Return("elevation") ELSE Raise("RequestError")
    /\ pc' = "done"
    /\ UNCHANGED <<merged_dense, idx, roads, valid_segments, file, dist, out_pts, boxes,
                   current_map>>

NextBBox ==
    \/ BBoxFromSource
    \/ BBoxCopy
    \/ BBoxReproject
    \/ LoadGraph
    \/ FetchElevationFromApi

SpecBBox == InitBBox /\ [][NextBBox]_vars

\* The four values a source gives, in the order west, south, east, north.
Spelled(d) == {ks \in KeySpellings : \A i \in 1..4 : ks[i] \in DOMAIN d}
HasQuad(src) ==
    CASE src.t = "tuple" -> Len(src.v) = 4
      [] src.t = "dict" -> Spelled(src.d) # {}
      [] src.t = "object" ->
            \E a \in {"total_bounds", "bounds"} : a \in DOMAIN src.o /\ Len(src.o[a]) = 4
      [] src.t = "bbox" -> TRUE
      [] OTHER -> FALSE
SourceQuad(src) ==
    CASE src.t = "tuple" -> src.v
      [] src.t = "dict" ->
            LET ks == CHOOSE ks \in Spelled(src.d) : TRUE
            IN <<src.d[ks[1]], src.d[ks[2]], src.d[ks[3]], src.d[ks[4]]>>
      [] src.t = "object" ->
            IF "total_bounds" \in DOMAIN src.o THEN src.o.total_bounds ELSE src.o.bounds
      [] src.t = "bbox" ->
            <<boxes[src.ref].west, boxes[src.ref].south, boxes[src.ref].east,
              boxes[src.ref].north>>
Numeric(q) == \A i \in 1..Len(q) : IsNumber(q[i])
\* a >= b on floats
Ge(a, b) == a # NaN /\ b # NaN /\ ~Lt(a, b)

Constructed == call.op = "BBox" /\ ret # NoRet

\* C16: a BBox built from the tuple (w, s, e, n) with w < e and s < n, from
\* a dict giving these values under one of the key spellings, or from a
\* BBox holding them, has to_tuple() = (w, s, e, n).
C16_ToTupleRoundTrip ==
    (/\ Constructed
     /\ call.src.t \in {"tuple", "dict", "bbox"}
     /\ HasQuad(call.src)
     /\ Numeric(SourceQuad(call.src))
     /\ Lt(SourceQuad(call.src)[1], SourceQuad(call.src)[3])
     /\ Lt(SourceQuad(call.src)[2], SourceQuad(call.src)[4]))
    => /\ ret.kind = "return"
       /\ to_tuple(boxes[ret.value]) = SourceQuad(call.src)

C16_Witness ==
    /\ Constructed
    /\ call.src.t = "dict"
    /\ {"left", "bottom", "right", "top", "crs"} \subseteq DOMAIN call.src.d
    /\ ret.kind = "return"
    /\ to_tuple(boxes[ret.value]) = <<F(0), F(0), F(1000), F(1000)>>

\* The malformed inputs: a dict without a complete key quadruple, a
\* sequence that is not 4 numeric values, a source of an unrecognised type,
\* and any form whose values have west >= east or south >= north.
Malformed(src) ==
    \/ src.t = "dict" /\ ~HasQuad(src)
    \/ src.t = "tuple" /\ (Len(src.v) # 4 \/ ~Numeric(src.v))
    \/ src.t \notin {"tuple", "dict", "object", "bbox"}
    \/ /\ HasQuad(src)
       /\ Numeric(SourceQuad(src))
       /\ Ge(SourceQuad(src)[1], SourceQuad(src)[3]) \/ Ge(SourceQuad(src)[2], SourceQuad(src)[4])

\* C17: normalising a malformed input raises ValueError and no BBox comes
\* to exist.
C17_MalformedRejected ==
    (Constructed /\ Malformed(call.src)) => (ret = Raise("ValueError") /\ boxes = <<>>)

\* an object exposing total_bounds whose south is not below its north
C17_Witness ==
    /\ Constructed
    /\ call.src.t = "object" /\ "total_bounds" \in DOMAIN call.src.o
    /\ HasQuad(call.src)
    /\ Numeric(SourceQuad(call.src))
    /\ Lt(SourceQuad(call.src)[1], SourceQuad(call.src)[3])
    /\ Ge(SourceQuad(call.src)[2], SourceQuad(call.src)[4])
    /\ ret = Raise("ValueError") /\ boxes = <<>>

\* C18: every BBox that exists has west < east, south < north and four
\* finite values.
C18_OrderedAndFinite ==
    \A i \in 1..Len(boxes) :
        /\ Lt(boxes[i].west, boxes[i].east)
        /\ Lt(boxes[i].south, boxes[i].north)
        /\ \A k \in 1..4 : isfinite(to_tuple(boxes[i])[k])

\* C19: reproject leaves every existing BBox, its receiver included, as it
\* was, whether it succeeds or fails; on success it returns a new BBox whose
\* crs is the target and whose is_projected tells whether the target CRS is
\* projected.
C19_ReprojectDoesNotMutate ==
    [][call'.op = "reproject" =>
          /\ \A i \in 1..Len(boxes) : i <= Len(boxes') /\ boxes'[i] = boxes[i]
          /\ ret'.kind = "return" =>
                /\ ret'.value = Len(boxes) + 1
                /\ Len(boxes') = Len(boxes) + 1
                /\ boxes'[ret'.value].crs = call'.to_crs
                /\ boxes'[ret'.value].is_projected = ~is_geographic(call'.to_crs)
          /\ ret'.kind = "raise" => boxes' = boxes]_vars

\* a projected box reprojected to geographic coordinates
C19_Witness ==
    /\ call.op = "reproject" /\ ret.kind = "return"
    /\ boxes[call.self].is_projected /\ boxes[call.self].crs = "EPSG:3857"
    /\ boxes[ret.value].crs = "EPSG:4326" /\ ~boxes[ret.value].is_projected
    /\ to_tuple(boxes[ret.value]) # to_tuple(boxes[call.self])

\* The box a loader normalises its argument to, when it gets that far.
IsLoader ==
    \/ call.op = "load_graph" /\ call.place = None /\ TruthySource(call.bbox)
    \/ call.op = "fetch_elevation_from_api"
LoaderSource == IF call.op = "load_graph" THEN call.bbox ELSE call.bounds
LoaderBox == BBox__init__(LoaderSource, <<>>, FullEnv)

\* C20: when the bounding box is malformed, or is projected and cannot be
\* reprojected to geographic coordinates, the graph load and the elevation
\* fetch raise and issue no request; no request carries a box that is
\* still projected.
C20_BadBoxAbortsBeforeRequest ==
    IsLoader =>
        /\ (\/ LoaderBox.kind = "raise"
            \/ /\ LoaderBox.value.is_projected
               /\ reproject(LoaderBox.value, "EPSG:4326", FullEnv).kind = "raise")
              => (ret.kind = "raise" /\ ret.exc # "RequestError" /\ requests = <<>>)
        /\ \A r \in 1..Len(requests) : ~requests[r].box.is_projected

\* the CRS a source carries, None when it carries none
SourceCRS(src) ==
    CASE src.t = "dict" -> IF "crs" \in DOMAIN src.d THEN src.d.crs ELSE None
      [] src.t = "object" -> IF "crs" \in DOMAIN src.o THEN src.o.crs ELSE None
      [] src.t = "bbox" -> boxes[src.ref].crs
      [] OTHER -> None
\* the CRS string names an EPSG code other than 4326
EpsgOtherThan4326(c) == Contains(c, "epsg") /\ DigitsOf(c) \notin {-1, 4326}
NamesMetric(c) == \E w \in {"meter", "metre", "mercator"} : Contains(c, w)

\* C26: without the CRS authority database, is_projected is false for no
\* CRS and for EPSG:4326, and true for every CRS string that names meter,
\* metre or mercator or an EPSG code other than 4326, codes that merely
\* contain the digits 4326 included.
C26_HeuristicIsProjected ==
    (/\ Constructed
     /\ ~call.env.pyproj
     /\ call.src.t \in {"dict", "object"}
     /\ ret.kind = "return")
    => LET c == SourceCRS(call.src)
           b == boxes[ret.value]
       IN /\ c \in {None, "EPSG:4326"} => ~b.is_projected
          /\ (c # None /\ (NamesMetric(c) \/ EpsgOtherThan4326(c))) => b.is_projected
\* the same without the codes that contain the digits 4326
C26_HeuristicIsProjectedButFor4326Digits ==
    (/\ Constructed
     /\ ~call.env.pyproj
     /\ call.src.t \in {"dict", "object"}
     /\ ret.kind = "return")
    => LET c == SourceCRS(call.src)
           b == boxes[ret.value]
       IN /\ c \in {None, "EPSG:4326"} => ~b.is_projected
          /\ (/\ c # None
              /\ ~Contains(c, "4326")
              /\ NamesMetric(c) \/ EpsgOtherThan4326(c)) => b.is_projected

(***************************************************************************)
(* utils/geometry_utils.py: the UTM zone of a position and the world size  *)
(* of a bounding box.  Longitudes and latitudes are whole degrees, sizes   *)
(* whole metres.                                                           *)
(***************************************************************************)
\* lines 10-13: the EPSG code handed to CRS.from_epsg
utm_crs_from_lonlat(lon, lat) ==
    LET zone == FloorDiv(lon + 180, 6) + 1
        epsg == (IF lat >= 0 THEN 32600 ELSE 32700) + zone
    IN epsg

\* A plausible slip: the doubling stops one step early.
RECURSIVE DoubleUntilHalf(_, _)
DoubleUntilHalf(n, x) == IF 2 * n < x THEN DoubleUntilHalf(2 * n, x) ELSE n

\* lines 163-165: n = 1; while n < x: n <<= 1
RECURSIVE DoubleUntil(_, _)
DoubleUntil(n, x) == IF n < x THEN DoubleUntil(2 * n, x) ELSE n

\* lines 157-166
_next_power_of_two(x, minimum, maximum) ==
    IF x <= minimum THEN minimum
    ELSE Min(Max(DoubleUntil(1, x), minimum), maximum)

\* lines 169-187, on the size (w_m, h_m) that bbox_size_meters gives
compute_world_params(w_m, h_m, page_size, snap_to_pow2) ==
    LET side == Max(w_m, h_m)
        world_size == IF snap_to_pow2 THEN _next_power_of_two(side, 1024, 32768) ELSE side
    IN [world_size |-> world_size, per_pixel_of |-> Max(page_size - 1, 1)]

Lons == -180..180
Lats == {-90, -1, 0, 1, 90}
Sizes == {0, 1, 1000, 1023, 1024, 1025, 1500, 2048, 2049, 16384, 30000, 32767, 32768,
          32769, 40000, 65536}

InitWorld ==
    /\ call \in {[op |-> "utm_crs_from_lonlat", lon |-> lon, lat |-> lat] :
                    lon \in Lons, lat \in Lats}
               \cup {[op |-> "_next_power_of_two", x |-> x] : x \in Sizes}
               \cup {[op |-> "compute_world_params", w_m |-> w, h_m |-> h,
                      page_size |-> ps, snap_to_pow2 |-> b] :
                        w \in Sizes, h \in Sizes, ps \in {1025, 1}, b \in BOOLEAN}
    /\ ret = NoRet
    /\ pc = "call"
    /\ Idle

UtmCrsFromLonlat ==
    /\ call.op = "utm_crs_from_lonlat"
    /\ pc = "call"
    /\ ret' = Return(utm_crs_from_lonlat(call.lon, call.lat))
    /\ pc' = "done"
    /\ UNCHANGED <<call, merged_dense, idx, roads, valid_segments, log, file, dist, out_pts,
                   boxes, requests, current_map>>

NextPowerOfTwo ==
    /\ call.op = "_next_power_of_two"
    /\ pc = "call"
    /\ ret' = Return(_next_power_of_two(call.x, 1024, 32768))
    /\ pc' = "done"
    /\ UNCHANGED <<call, merged_dense, idx, roads, valid_segments, log, file, dist, out_pts,
                   boxes, requests, current_map>>

ComputeWorldParams ==
    /\ call.op = "compute_world_params"
    /\ pc = "call"
    /\ ret' = Return(compute_world_params(call.w_m, call.h_m, call.page_size,
                                          call.snap_to_pow2))
    /\ pc' = "done"
    /\ UNCHANGED <<call, merged_dense, idx, roads, valid_segments, log, file, dist, out_pts,
                   boxes, requests, current_map>>

NextWorld == UtmCrsFromLonlat \/ NextPowerOfTwo \/ ComputeWorldParams

SpecWorld == InitWorld /\ [][NextWorld]_vars

UtmDone == call.op = "utm_crs_from_lonlat" /\ pc = "done"

\* C27: for every longitude in [-180, 180], both ends included, and every
\* latitude in [-90, 90], the zone is in 1..60 and the code is 32600 + zone
\* for latitude >= 0 and 32700 + zone for latitude < 0.
C27_ZoneInRange ==
    UtmDone =>
        \E zone \in 1..60 :
            ret.value = (IF call.lat >= 0 THEN 32600 ELSE 32700) + zone
\* the same for longitudes below 180
C27_ZoneInRangeWestOf180 ==
    (UtmDone /\ call.lon < 180) =>
        \E zone \in 1..60 :
            ret.value = (IF call.lat >= 0 THEN 32600 ELSE 32700) + zone

PowDone == call.op = "_next_power_of_two" /\ pc = "done"
WorldDone == call.op = "compute_world_params" /\ pc = "done"
IsPowerOfTwo(n) == \E k \in 0..20 : n = 2 ^ k

MapData == [data |-> <<>>, elevation_data |-> <<>>]
\* the dict download_data_from_bbox returns; line 129 always sets 'bounds'
DownloadedData == [bounds |-> "bounds_gdf", bounds_proj |-> "bounds_proj"]

\* x is {}: identity with a dict created by the comparison itself, which
\* no object that exists is
IsNewEmptyDict(x) == FALSE

Printed(text) == <<"print", text>>

InitMenu ==
    /\ call = [op |-> "Menu.run", choice |-> None, n |-> 0]
    /\ ret = NoRet
    /\ pc = "menu"
    /\ merged_dense = <<>>
    /\ idx = 0
    /\ roads = <<>>
    /\ valid_segments = 0
    /\ log = <<>>
    /\ file = Absent
    /\ dist = 0
    /\ out_pts = <<>>
    /\ boxes = <<>>
    /\ requests = <<>>
    /\ current_map = MapData

\* lines 209-213: a choice is read and its handler looked up
Choose(choice) ==
    /\ pc = "menu"
    /\ call.n < MaxChoices
    /\ call' = [op |-> "Menu.run", choice |-> choice, n |-> call.n + 1]

\* lines 32-70: '1', dlcity
MenuDlcity ==
    /\ Choose("1")
    /\ \E outcome \in {"cancelled", "download fails", "no elevation", "elevation"} :
          CASE outcome = "cancelled" ->
                  /\ log' = Append(log, Printed("No place or bounding box selected."))
                  /\ ret' = Return(None)
                  /\ UNCHANGED <<current_map, pc>>
            [] outcome = "download fails" ->
                  /\ ret' = Raise("RequestError")
                  /\ pc' = "crashed"
                  /\ log' = Append(log, Printed("Download map data."))
                  /\ UNCHANGED current_map
            [] OTHER ->
                  /\ current_map' =
                        [data |-> DownloadedData,
                         elevation_data |-> IF outcome = "elevation"
                                            THEN [elevation |-> "grid"] ELSE <<>>]
                  /\ log' = Append(log, Printed("Download map data."))
                  /\ ret' = Return(None)
                  /\ UNCHANGED pc
    /\ UNCHANGED <<merged_dense, idx, roads, valid_segments, file, dist, out_pts, boxes,
                   requests>>

\* lines 73-75: '2', load
MenuLoad ==
    /\ Choose("2")
    /\ log' = Append(log, Printed("loading..."))
    /\ ret' = Return(None)
    /\ UNCHANGED <<pc, merged_dense, idx, roads, valid_segments, file, dist, out_pts, boxes,
                   requests, current_map>>

\* lines 78-173: '3', export
MenuExport ==
    /\ Choose("3")
    /\ IF IsNewEmptyDict(current_map.data)
       THEN /\ log' = Append(log, Printed("No map data available. Please download a city first."))
            /\ ret' = Return(None)
            /\ UNCHANGED <<pc, file>>
       ELSE IF "bounds" \notin DOMAIN current_map.data
       THEN \* line 93: current_map.data['bounds']
            /\ ret' = Raise("KeyError")
            /\ pc' = "crashed"
            /\ UNCHANGED <<log, file>>
       ELSE \E images \in BOOLEAN, terrain \in BOOLEAN :
               IF ~images
               THEN \* generate_heightmap_n_texture raises, outside any try
                    /\ ret' = Raise("Exception")
                    /\ pc' = "crashed"
                    /\ UNCHANGED <<log, file>>
               ELSE IF terrain
               THEN /\ file' = Holding(<<<<"heightmap.png">>, <<"groundmap.png">>,
                                         <<"otc">>, <<"terrn2">>, <<"tobj">>>>)
                    /\ log' = Append(log, Printed("Export complete:"))
                    /\ ret' = Return(None)
                    /\ UNCHANGED pc
               ELSE /\ file' = Holding(<<<<"heightmap.png">>, <<"groundmap.png">>>>)
                    /\ log' = Append(log, Printed("Error during OTC/TERRN2 export"))
                    /\ ret' = Return(None)
                    /\ UNCHANGED pc
    /\ UNCHANGED <<merged_dense, idx, roads, valid_segments, dist, out_pts, boxes, requests,
                   current_map>>

\* lines 176-179: '4', exit
MenuExit ==
    /\ Choose("4")
    /\ log' = Append(log, Printed("exit..."))
    /\ ret' = Raise("SystemExit")
    /\ pc' = "exited"
    /\ UNCHANGED <<merged_dense, idx, roads, valid_segments, file, dist, out_pts, boxes,
                   requests, current_map>>

\* lines 214-219: any other input
MenuInvalid ==
    /\ Choose("x")
    /\ log' = Append(log, Printed("is not a valid option"))
    /\ UNCHANGED <<ret, pc, merged_dense, idx, roads, valid_segments, file, dist, out_pts,
                   boxes, requests, current_map>>

NextMenu == MenuDlcity \/ MenuLoad \/ MenuExport \/ MenuExit \/ MenuInvalid

SpecMenu == InitMenu /\ [][NextMenu]_vars

\* C29: choosing Export while no map data is held only reports that no map
\* data is available: no export step is performed, no file is written and
\* no error is raised.
C29_ExportWithoutDataOnlyReports ==
    [][(/\ pc = "menu"
        /\ call'.n # call.n
        /\ call'.choice = "3"
        /\ current_map.data = <<>>)
          => /\ log' = Append(log, Printed("No map data available. Please download a city first."))
             /\ file' = file
             /\ ret'.kind # "raise"
             /\ pc' = "menu"]_vars
\* what does hold: without map data Export writes no file, and with map
\* data it never reports that there is none
C29_ExportWithoutDataWritesNoFile ==
    [][(pc = "menu" /\ call'.n # call.n /\ call'.choice = "3" /\ current_map.data = <<>>)
          => file' = file]_vars
====
